-------------------------- MODULE CodecCallsProofs --------------------------
(***************************************************************************)
(* Proofs about base64, the placeholder, the parsers of challenges and     *)
(* visitor_data, for data, texts, cuts, bodies and messages of any size.   *)
(***************************************************************************)
EXTENDS CodecCalls, SubsequencesProofs

(* Arithmetic of the groups.                                                *)

(* A byte is its upper and its lower bits. *)
LEMMA ByteParts ==
  ASSUME NEW x \in Bytes
  PROVE  /\ x \div 4 \in 0..63 /\ x % 4 \in 0..3 /\ x = (x \div 4) * 4 + (x % 4)
         /\ x \div 16 \in 0..15 /\ x % 16 \in 0..15 /\ x = (x \div 16) * 16 + (x % 16)
         /\ x \div 64 \in 0..3 /\ x % 64 \in 0..63 /\ x = (x \div 64) * 64 + (x % 64)
BY SMT DEF Bytes

(* Three bytes as one number, the four characters they make, and four
   characters as one number. *)
Three(a, b, c) == a * 65536 + b * 256 + c

Character(a, b, c) == <<a \div 4, (a % 4) * 16 + (b \div 16), (b % 16) * 4 + (c \div 64), c % 64>>

Four(w, x, y, z) == w * 262144 + x * 4096 + y * 64 + z

Sextets == 0..63

LEMMA SextetsOfBytes ==
  ASSUME NEW a \in Bytes, NEW b \in Bytes, NEW c \in Bytes, NEW i \in 1..4
  PROVE  Sextet(Three(a, b, c), i) = Character(a, b, c)[i]
<1> DEFINE t == Three(a, b, c)
<1>1. t = a * 65536 + b * 256 + c /\ t \in Nat
  BY DEF Bytes, Three
<1> HIDE DEF t
<1>2. Sextet(t, 1) = a \div 4
  <2>1. t \div 262144 = a \div 4
    BY <1>1, ByteParts DEF Bytes
  <2>2. \A q \in 0..63 : q % 64 = q
    OBVIOUS
  <2>3. a \div 4 \in 0..63
    BY ByteParts
  <2>4. (a \div 4) % 64 = a \div 4
    BY <2>2, <2>3
  <2> QED
    BY <2>1, <2>4 DEF Sextet
<1>3. Sextet(t, 2) = (a % 4) * 16 + (b \div 16)
  <2>1. t \div 4096 = a * 16 + (b \div 16)
    BY <1>1, ByteParts DEF Bytes
  <2>2. (t \div 4096) % 64 = (a % 4) * 16 + (b \div 16)
    BY <2>1, ByteParts DEF Bytes
  <2> QED
    BY <2>2 DEF Sextet
<1>4. Sextet(t, 3) = (b % 16) * 4 + (c \div 64)
  <2>1. t \div 64 = a * 1024 + b * 4 + (c \div 64)
    BY <1>1, ByteParts DEF Bytes
  <2>2. (t \div 64) % 64 = (b % 16) * 4 + (c \div 64)
    BY <2>1, ByteParts DEF Bytes
  <2> QED
    BY <2>2 DEF Sextet
<1>5. Sextet(t, 4) = c % 64
  <2>1. t \div 1 = t
    BY <1>1
  <2>2. t % 64 = c % 64
    BY <1>1, ByteParts DEF Bytes
  <2> QED
    BY <2>1, <2>2 DEF Sextet
<1> QED
  BY <1>2, <1>3, <1>4, <1>5, i \in {1, 2, 3, 4} DEF t, Character

(* The first byte is in the first two characters, the second in the first
   three, whatever the others are. *)
LEMMA FirstOctet ==
  ASSUME NEW a \in Bytes, NEW b \in Bytes, NEW c \in Bytes, NEW y \in Sextets, NEW z \in Sextets
  PROVE  Octet(Four(Character(a, b, c)[1], Character(a, b, c)[2], y, z), 1) = a
<1> DEFINE v == Four(Character(a, b, c)[1], Character(a, b, c)[2], y, z)
<1>1. v = (a \div 4) * 262144 + ((a % 4) * 16 + (b \div 16)) * 4096 + y * 64 + z
  BY DEF Four, Character
<1> HIDE DEF v
<1>2. (v \div 65536) % 256 = a
  BY <1>1 DEF Bytes, Sextets
<1>3. Octet(v, 1) = a
  BY <1>2 DEF Octet
<1> QED
  BY <1>3 DEF v

LEMMA SecondOctet ==
  ASSUME NEW a \in Bytes, NEW b \in Bytes, NEW c \in Bytes, NEW z \in Sextets
  PROVE  Octet(Four(Character(a, b, c)[1], Character(a, b, c)[2], Character(a, b, c)[3], z), 2) = b
<1> DEFINE v == Four(Character(a, b, c)[1], Character(a, b, c)[2], Character(a, b, c)[3], z)
           r == (c \div 64) * 64 + z
<1>1. v = (a \div 4) * 262144 + ((a % 4) * 16 + (b \div 16)) * 4096
          + ((b % 16) * 4 + (c \div 64)) * 64 + z
  BY DEF Four, Character
<1> HIDE DEF v
<1>2. v = a * 65536 + b * 256 + r /\ r \in 0..255
  BY <1>1, ByteParts DEF Bytes, Sextets
<1> HIDE DEF r
<1>3. v \div 256 = a * 256 + b
  BY <1>2 DEF Bytes
<1>4. (v \div 256) % 256 = b
  BY <1>3 DEF Bytes
<1>5. Octet(v, 2) = b
  BY <1>4 DEF Octet
<1> QED
  BY <1>5 DEF v

LEMMA ThirdOctet ==
  ASSUME NEW a \in Bytes, NEW b \in Bytes, NEW c \in Bytes
  PROVE  Octet(Four(Character(a, b, c)[1], Character(a, b, c)[2], Character(a, b, c)[3],
                    Character(a, b, c)[4]), 3) = c
<1> DEFINE v == Four(Character(a, b, c)[1], Character(a, b, c)[2], Character(a, b, c)[3],
                     Character(a, b, c)[4])
<1>1. v = (a \div 4) * 262144 + ((a % 4) * 16 + (b \div 16)) * 4096
          + ((b % 16) * 4 + (c \div 64)) * 64 + (c % 64)
  BY DEF Four, Character
<1> HIDE DEF v
<1>2. v = a * 65536 + b * 256 + c
  BY <1>1, ByteParts DEF Bytes
<1>3. (v \div 1) % 256 = c
  BY <1>2 DEF Bytes
<1>4. Octet(v, 3) = c
  BY <1>3 DEF Octet
<1> QED
  BY <1>4 DEF v

(* The characters of the data itself, without padding. *)
Characters(n) == 4 * ((n + 2) \div 3) - ((3 - (n % 3)) % 3)

(* Of the first `cut` characters, as many as hold byte k in full. *)
LEMMA BytesInText ==
  ASSUME NEW k \in Nat \ {0}, NEW cut \in Nat
  PROVE  4 * Group(k, 3) + Place(k, 3) + 1 <= cut <=> k <= (3 * cut) \div 4
BY SMT DEF Group, Place

LEMMA BytesInCharacters ==
  ASSUME NEW k \in Nat \ {0}, NEW n \in Nat
  PROVE  4 * Group(k, 3) + Place(k, 3) + 1 <= Characters(n) <=> k <= n
BY SMT DEF Group, Place, Characters

-----------------------------------------------------------------------------
(* The alphabet.                                                            *)

LEMMA SmallSextet ==
  ASSUME NEW t \in Nat, NEW place \in 1..4
  PROVE  Sextet(t, place) \in 0..63
<1>1. <<262144, 4096, 64, 1>>[place] \in Nat \ {0}
  BY place \in {1, 2, 3, 4}
<1>2. \A d \in Nat \ {0} : t \div d \in Nat
  OBVIOUS
<1>3. \A q \in Nat : q % 64 \in 0..63
  OBVIOUS
<1> QED
  BY <1>1, <1>2, <1>3 DEF Sextet

(* What decode makes of the characters encode uses. *)
LEMMA Alphabet ==
  ASSUME NEW v \in 0..63
  PROVE  /\ STANDARD_CHARS[v] \in Bytes /\ STANDARD_CHARS[v] # Eq
         /\ UrlSafe(STANDARD_CHARS[v]) # Eq
         /\ Normal(STANDARD_CHARS[v]) = STANDARD_CHARS[v]
         /\ Normal(UrlSafe(STANDARD_CHARS[v])) = STANDARD_CHARS[v]
         /\ DEC[STANDARD_CHARS[v]] = v
<1>1. STANDARD_CHARS[v] \in Bytes /\ STANDARD_CHARS[v] \notin {45, 46, 61, 95}
  BY DEF STANDARD_CHARS, Bytes
<1>2. \A s \in 0..63 : STANDARD_CHARS[s] = STANDARD_CHARS[v] => s = v
  BY DEF STANDARD_CHARS
<1>3. DEC[STANDARD_CHARS[v]] = v
  BY <1>1, <1>2 DEF DEC
<1> QED
  BY <1>1, <1>3 DEF Normal, UrlSafe, Eq, Dot

LEMMA Padding == DEC[Eq] = -1 /\ Normal(Eq) = Eq /\ Normal(Dot) = Eq
<1>1. \A s \in 0..63 : STANDARD_CHARS[s] # Eq
  BY Alphabet
<1>2. Eq \in Bytes
  BY DEF Eq, Bytes
<1> QED
  BY <1>1, <1>2 DEF DEC, Normal, Eq, Dot
-----------------------------------------------------------------------------
(* Texts.                                                                   *)

LEMMA FunctionShape ==
  ASSUME NEW n \in Nat, NEW f, DOMAIN f = 1..n, f = [k \in 1..n |-> f[k]]
  PROVE  IsSeq(f) /\ Len(f) = n
<1> DEFINE S == {f[k] : k \in DOMAIN f}
<1>1. f \in [1..n -> S]
  OBVIOUS
<1> HIDE DEF S
<1>2. f \in Seq(S)
  BY <1>1
<1> QED
  BY <1>2 DEF IsSeq, S

(* The bytes of group g, zeros where there are none. *)
ByteAt(data, i) == IF i <= Len(data) THEN data[i] ELSE 0

LEMMA ByteAtType ==
  ASSUME NEW data \in Seq(Bytes), NEW i \in Nat \ {0}
  PROVE  ByteAt(data, i) \in Bytes
<1>1. Len(data) \in Nat /\ \A k \in 1..Len(data) : data[k] \in Bytes
  BY LenProperties, ElementOfSeq
<1> QED
  BY <1>1 DEF ByteAt, Bytes

LEMMA GroupOfData ==
  ASSUME NEW data \in Seq(Bytes), NEW g \in Nat
  PROVE  /\ DataTriple(data, g) \in Nat
         /\ DataTriple(data, g)
              = Three(ByteAt(data, 3*g + 1), ByteAt(data, 3*g + 2), ByteAt(data, 3*g + 3))
<1>1. DataTriple(data, g) = Three(ByteAt(data, 3*g + 1), ByteAt(data, 3*g + 2), ByteAt(data, 3*g + 3))
  BY DEF DataTriple, ByteAt, Three
<1>2. 3*g + 1 \in Nat \ {0} /\ 3*g + 2 \in Nat \ {0} /\ 3*g + 3 \in Nat \ {0}
  OBVIOUS
<1>3. \A a, b, c \in Bytes : Three(a, b, c) \in Nat
  BY DEF Bytes, Three
<1>4. Three(ByteAt(data, 3*g + 1), ByteAt(data, 3*g + 2), ByteAt(data, 3*g + 3)) \in Nat
  BY <1>2, <1>3, ByteAtType
<1> QED
  BY <1>1, <1>4

SextetAt(data, k) == Sextet(DataTriple(data, Group(k, 4)), Place(k, 4))

LEMMA SextetType ==
  ASSUME NEW data \in Seq(Bytes), NEW k \in Nat \ {0}
  PROVE  SextetAt(data, k) \in 0..63
<1>1. Group(k, 4) \in Nat /\ Place(k, 4) \in 1..4
  BY DEF Group, Place
<1>2. DataTriple(data, Group(k, 4)) \in Nat
  BY <1>1, GroupOfData
<1> QED
  BY <1>1, <1>2, SmallSextet DEF SextetAt

LEMMA CharactersType ==
  ASSUME NEW n \in Nat
  PROVE  /\ Characters(n) \in Nat /\ Characters(n) <= 4 * ((n + 2) \div 3)
         /\ 4 * ((n + 2) \div 3) \in Nat
         /\ 4 * ((n + 2) \div 3) <= 4 * ((Characters(n) + 3) \div 4)
BY SMT DEF Characters

(* A text of the data, in either alphabet: its characters, then '='. *)
LEMMA EncodeShape ==
  ASSUME NEW data \in Seq(Bytes), NEW url_safe \in BOOLEAN
  PROVE  LET text == Encode(data, url_safe)
             n == Characters(Len(data))
         IN /\ IsSeq(text) /\ Len(text) \in Nat /\ DOMAIN text = 1..Len(text)
            /\ n <= Len(text) /\ Len(text) <= 4 * ((n + 3) \div 4)
            /\ url_safe => Len(text) = n
            /\ \A k \in DOMAIN text :
                 IF k <= n THEN text[k] # Eq /\ Normal(text[k]) = STANDARD_CHARS[SextetAt(data, k)]
                 ELSE text[k] = Eq
<1> DEFINE n == Characters(Len(data))
           size == 4 * ((Len(data) + 2) \div 3)
           pad == (3 - (Len(data) % 3)) % 3
           char(k) == STANDARD_CHARS[SextetAt(data, k)]
           text == Encode(data, url_safe)
<1>1. /\ n \in Nat /\ size \in Nat /\ n <= size /\ n = size - pad
      /\ size <= 4 * ((n + 3) \div 4) /\ n <= 4 * ((n + 3) \div 4)
  BY CharactersType, LenProperties DEF Characters
<1>2. text = IF url_safe THEN [k \in 1..n |-> UrlSafe(char(k))]
             ELSE [k \in 1..size |-> IF k > n THEN Eq ELSE char(k)]
  BY <1>1 DEF Encode, SextetAt
<1>3. \A k \in Nat \ {0} : /\ char(k) # Eq /\ UrlSafe(char(k)) # Eq
                           /\ Normal(char(k)) = char(k) /\ Normal(UrlSafe(char(k))) = char(k)
  BY SextetType, Alphabet
<1> HIDE DEF n, size, pad, char, text
<1>4. CASE url_safe
  <2>1. text = [k \in 1..n |-> UrlSafe(char(k))]
    BY <1>2, <1>4
  <2>2. IsSeq(text) /\ Len(text) = n /\ DOMAIN text = 1..n
    BY <1>1, <2>1, FunctionShape
  <2>3. \A k \in 1..n : text[k] = UrlSafe(char(k)) /\ k \in Nat \ {0} /\ k <= n
    BY <1>1, <2>1
  <2>4. \A k \in 1..n : text[k] # Eq /\ Normal(text[k]) = char(k) /\ k <= n
    BY <1>3, <2>3
  <2> QED
    BY <1>1, <2>2, <2>4 DEF n, char, text
<1>5. CASE ~url_safe
  <2>1. text = [k \in 1..size |-> IF k > n THEN Eq ELSE char(k)]
    BY <1>2, <1>5
  <2>2. IsSeq(text) /\ Len(text) = size /\ DOMAIN text = 1..size
    BY <1>1, <2>1, FunctionShape
  <2>3. \A k \in 1..size : IF k <= n THEN text[k] = char(k) ELSE text[k] = Eq
    BY <1>1, <2>1
  <2>4. \A k \in 1..size : IF k <= n THEN text[k] # Eq /\ Normal(text[k]) = char(k) ELSE text[k] = Eq
    BY <1>1, <1>3, <2>3
  <2> QED
    BY <1>1, <1>5, <2>2, <2>4 DEF n, char, text
<1> QED
  BY <1>4, <1>5

(* Its length is that of the data alone. *)
LEMMA EncodeLength ==
  ASSUME NEW data, NEW other, NEW url_safe \in BOOLEAN, Len(data) \in Nat, Len(other) = Len(data)
  PROVE  Len(Encode(other, url_safe)) = Len(Encode(data, url_safe))
<1> DEFINE n == Characters(Len(data))
           size == 4 * ((Len(data) + 2) \div 3)
           pad == (3 - (Len(data) % 3)) % 3
<1>1. n \in Nat /\ size \in Nat /\ size - pad = n
  BY CharactersType DEF Characters
<1>2. ASSUME NEW d, Len(d) = Len(data)
      PROVE  Len(Encode(d, url_safe)) = IF url_safe THEN n ELSE size
  <2> DEFINE char(k) == STANDARD_CHARS[SextetAt(d, k)]
             short == [k \in 1..n |-> UrlSafe(char(k))]
             full == [k \in 1..size |-> IF k > n THEN Eq ELSE char(k)]
  <2>1. Encode(d, url_safe) = IF url_safe THEN short ELSE full
    BY <1>1, <1>2 DEF Encode, SextetAt
  <2> HIDE DEF char, n, size
  <2>2. Len(short) = n /\ Len(full) = size
    BY <1>1, FunctionShape
  <2> QED
    BY <2>1, <2>2
<1> QED
  BY <1>2

(* The first `cut` characters of a text that holds the data: what decode
   pads them to. *)
Shows(s, data, cut) ==
  /\ Len(s) = 4 * ((cut + 3) \div 4) /\ DOMAIN s = 1..Len(s)
  /\ \A k \in DOMAIN s :
       s[k] = IF k <= cut /\ k <= Characters(Len(data)) THEN STANDARD_CHARS[SextetAt(data, k)]
              ELSE Eq

LEMMA PaddedShape ==
  ASSUME NEW input, NEW n \in Nat, n = Len(input)
  PROVE  /\ Len(Padded(input)) = 4 * ((n + 3) \div 4)
         /\ DOMAIN Padded(input) = 1..(4 * ((n + 3) \div 4))
         /\ \A k \in DOMAIN Padded(input) :
              Padded(input)[k] = IF k <= n THEN Normal(input[k]) ELSE Eq
<1> DEFINE size == 4 * ((n + 3) \div 4)
           s == [k \in 1..size |-> IF k <= n THEN Normal(input[k]) ELSE Eq]
<1>1. Padded(input) = s
  BY DEF Padded
<1>2. size \in Nat
  OBVIOUS
<1> HIDE DEF size
<1>3. Len(s) = size /\ DOMAIN s = 1..size
  BY <1>2, FunctionShape
<1> QED
  BY <1>1, <1>3 DEF size

LEMMA ReceivedShape ==
  ASSUME NEW data \in Seq(Bytes), NEW style \in {"standard", "url_safe", "dotted"},
         NEW cut \in 0..Len(Encode(data, style = "url_safe"))
  PROVE  Shows(Padded(Received(data, style, cut)), data, cut)
<1> DEFINE text == Encode(data, style = "url_safe")
           n == Characters(Len(data))
           shown == [k \in DOMAIN text |-> IF style = "dotted" /\ text[k] = Eq THEN Dot ELSE text[k]]
           char(k) == STANDARD_CHARS[SextetAt(data, k)]
<1>1. /\ Len(text) \in Nat /\ DOMAIN text = 1..Len(text)
      /\ \A k \in DOMAIN text :
           IF k <= n THEN text[k] # Eq /\ Normal(text[k]) = char(k) ELSE text[k] = Eq
  <2>1. (style = "url_safe") \in BOOLEAN
    OBVIOUS
  <2> QED
    BY <2>1, EncodeShape
<1>2. n \in Nat
  BY CharactersType, LenProperties
<1> HIDE DEF text, n, char
<1>3. IsSeq(shown) /\ Len(shown) = Len(text) /\ DOMAIN shown = 1..Len(text)
  BY <1>1, FunctionShape
<1>4. \A k \in DOMAIN shown : Normal(shown[k]) = IF k <= n THEN char(k) ELSE Eq
  BY <1>1, Padding
<1> HIDE DEF shown
<1>5. cut \in Nat /\ cut <= Len(text)
  BY <1>1 DEF text
<1> DEFINE input == SubSeq(shown, 1, cut)
<1>6. /\ Len(input) = cut
      /\ \A k \in 1..cut : input[k] = shown[k]
  <2>1. shown \in Seq({shown[k] : k \in DOMAIN shown})
    BY <1>3 DEF IsSeq
  <2>2. 1 \in 1..(Len(shown) + 1) /\ cut \in 0..Len(shown)
    BY <1>1, <1>3, <1>5
  <2> QED
    BY <1>1, <1>3, <1>5, <2>1, <2>2, SubSeqProperties
<1>7. input = Received(data, style, cut)
  BY DEF Received, shown, text
<1> HIDE DEF input
<1> DEFINE s == Padded(input)
<1>8. /\ Len(s) = 4 * ((cut + 3) \div 4) /\ DOMAIN s = 1..(4 * ((cut + 3) \div 4))
      /\ \A k \in DOMAIN s : s[k] = IF k <= cut THEN Normal(input[k]) ELSE Eq
  BY <1>5, <1>6, PaddedShape
<1> HIDE DEF s
<1>9. ASSUME NEW k \in DOMAIN s
      PROVE  s[k] = IF k <= cut /\ k <= n THEN char(k) ELSE Eq
  <2>1. CASE k <= cut
    <3>1. k \in 1..cut /\ k \in DOMAIN shown
      BY <1>1, <1>3, <1>5, <1>8, <2>1
    <3>2. s[k] = Normal(shown[k])
      BY <1>6, <1>8, <2>1, <3>1
    <3> QED
      BY <1>4, <2>1, <3>1, <3>2
  <2>2. CASE ~(k <= cut)
    BY <1>8, <2>2
  <2> QED
    BY <2>1, <2>2
<1> QED
  BY <1>7, <1>8, <1>9 DEF Shows, n, char, s

-----------------------------------------------------------------------------
(* What decode makes of a text.                                             *)

(* The characters that are there. *)
There(data, cut, k) == k <= cut /\ k <= Characters(Len(data))

LEMMA GroupOfText ==
  ASSUME NEW data \in Seq(Bytes), NEW cut \in Nat, NEW s, Shows(s, data, cut),
         NEW g \in 0..((cut + 3) \div 4 - 1), NEW i \in 1..4
  PROVE  /\ There(data, cut, 4*g + i) =>
              s[4*g + i] # Eq /\ DEC[s[4*g + i]] = Sextet(DataTriple(data, g), i)
         /\ ~There(data, cut, 4*g + i) => s[4*g + i] = Eq /\ DEC[s[4*g + i]] = -1
         /\ Sextet(DataTriple(data, g), i) \in 0..63
<1> DEFINE k == 4*g + i
<1>1. k \in 1..(4 * ((cut + 3) \div 4)) /\ k \in Nat \ {0} /\ g \in Nat
  OBVIOUS
<1>2. Group(k, 4) = g /\ Place(k, 4) = i
  BY DEF Group, Place
<1> HIDE DEF k
<1>3. SextetAt(data, k) = Sextet(DataTriple(data, g), i) /\ SextetAt(data, k) \in 0..63
  BY <1>1, <1>2, SextetType DEF SextetAt
<1>4. s[k] = IF There(data, cut, k) THEN STANDARD_CHARS[SextetAt(data, k)] ELSE Eq
  BY <1>1 DEF Shows, There
<1>5. There(data, cut, k) => s[k] # Eq /\ DEC[s[k]] = SextetAt(data, k)
  BY <1>3, <1>4, Alphabet
<1>6. ~There(data, cut, k) => s[k] = Eq /\ DEC[s[k]] = -1
  BY <1>4, Padding
<1> QED
  BY <1>3, <1>5, <1>6 DEF k

LEMMA ThereBefore ==
  ASSUME NEW data \in Seq(Bytes), NEW cut \in Nat, NEW k \in Nat, NEW l \in Nat, l <= k,
         There(data, cut, k)
  PROVE  There(data, cut, l)
<1>1. Characters(Len(data)) \in Nat
  BY CharactersType, LenProperties
<1> QED
  BY <1>1 DEF There

(* A byte is decoded if the characters it is in are there. *)
LEMMA DecodedIfThere ==
  ASSUME NEW data \in Seq(Bytes), NEW cut \in Nat, NEW s, Shows(s, data, cut),
         NEW g \in 0..((cut + 3) \div 4 - 1), NEW j \in 1..3
  PROVE  Reached(s, g) /\ ~Missing(s, g, j) <=> There(data, cut, 4*g + j + 1)
<1>1. g \in Nat /\ \A h \in 0..g : h \in Nat /\ h \in 0..((cut + 3) \div 4 - 1)
  OBVIOUS
<1>2. ASSUME NEW h \in 0..g
      PROVE  /\ There(data, cut, 4*h + 1) => DEC[s[4*h + 1]] >= 0
             /\ There(data, cut, 4*h + 2) <=> DEC[s[4*h + 2]] >= 0
  <2>1. h \in 0..((cut + 3) \div 4 - 1) /\ 1 \in 1..4 /\ 2 \in 1..4
    BY <1>1
  <2>2. \A q \in 0..63 : q >= 0
    OBVIOUS
  <2>3. ~(-1 >= 0)
    OBVIOUS
  <2>4. /\ There(data, cut, 4*h + 1) => DEC[s[4*h + 1]] = Sextet(DataTriple(data, h), 1)
        /\ Sextet(DataTriple(data, h), 1) \in 0..63
    BY <2>1, GroupOfText
  <2>5. /\ There(data, cut, 4*h + 2) => DEC[s[4*h + 2]] = Sextet(DataTriple(data, h), 2)
        /\ ~There(data, cut, 4*h + 2) => DEC[s[4*h + 2]] = -1
        /\ Sextet(DataTriple(data, h), 2) \in 0..63
    BY <2>1, GroupOfText
  <2> QED
    BY <2>2, <2>3, <2>4, <2>5
<1>3. Reached(s, g) <=> There(data, cut, 4*g + 2)
  <2>1. CASE There(data, cut, 4*g + 2)
    <3>1. ASSUME NEW h \in 0..g PROVE There(data, cut, 4*h + 1) /\ There(data, cut, 4*h + 2)
      <4>1. /\ 4*h + 1 \in Nat /\ 4*h + 2 \in Nat /\ 4*g + 2 \in Nat
            /\ 4*h + 1 <= 4*g + 2 /\ 4*h + 2 <= 4*g + 2
        BY <1>1
      <4> QED
        BY <2>1, <4>1, ThereBefore
    <3> QED
      BY <1>2, <2>1, <3>1 DEF Reached
  <2>2. CASE ~There(data, cut, 4*g + 2)
    <3>1. g \in 0..g
      BY <1>1
    <3> QED
      BY <1>2, <2>2, <3>1 DEF Reached
  <2> QED
    BY <2>1, <2>2
<1>4. CASE j = 1
  BY <1>3, <1>4 DEF Missing
<1>5. CASE j > 1
  <2>1. j + 1 \in 1..4 /\ 4*g + (j + 1) = 4*g + j + 1
    BY <1>1, <1>5
  <2>2. ~Missing(s, g, j) <=> There(data, cut, 4*g + (j + 1))
    <3>1. /\ There(data, cut, 4*g + (j + 1)) => s[4*g + (j + 1)] # Eq
          /\ ~There(data, cut, 4*g + (j + 1)) => s[4*g + (j + 1)] = Eq
      BY <2>1, GroupOfText
    <3> QED
      BY <1>5, <2>1, <3>1 DEF Missing
  <2>3. There(data, cut, 4*g + j + 1) => There(data, cut, 4*g + 2)
    <3>1. 4*g + j + 1 \in Nat /\ 4*g + 2 \in Nat /\ 4*g + 2 <= 4*g + j + 1
      BY <1>1, <1>5
    <3> QED
      BY <3>1, ThereBefore
  <2> QED
    BY <1>3, <2>1, <2>2, <2>3
<1> QED
  BY <1>4, <1>5

(* and it is the byte of the data. *)
LEMMA DecodedByte ==
  ASSUME NEW data \in Seq(Bytes), NEW cut \in Nat, NEW s, Shows(s, data, cut),
         NEW g \in 0..((cut + 3) \div 4 - 1), NEW j \in 1..3, There(data, cut, 4*g + j + 1)
  PROVE  Octet(TextTriple(s, g), j) = ByteAt(data, 3*g + j)
<1> DEFINE a == ByteAt(data, 3*g + 1)
           b == ByteAt(data, 3*g + 2)
           c == ByteAt(data, 3*g + 3)
           val(i) == IF DEC[s[4*g + i]] >= 0 THEN DEC[s[4*g + i]] ELSE 0
<1>1. g \in Nat /\ a \in Bytes /\ b \in Bytes /\ c \in Bytes
  <2>1. g \in Nat
    OBVIOUS
  <2>2. 3*g + 1 \in Nat \ {0} /\ 3*g + 2 \in Nat \ {0} /\ 3*g + 3 \in Nat \ {0}
    BY <2>1
  <2> QED
    BY <2>1, <2>2, ByteAtType
<1>2. DataTriple(data, g) = Three(a, b, c)
  BY <1>1, GroupOfData
<1> HIDE DEF a, b, c
<1>3. ASSUME NEW i \in 1..4
      PROVE  val(i) \in 0..63 /\ (i <= j + 1 => val(i) = Character(a, b, c)[i])
  <2>1. /\ There(data, cut, 4*g + i) => DEC[s[4*g + i]] = Sextet(DataTriple(data, g), i)
        /\ ~There(data, cut, 4*g + i) => DEC[s[4*g + i]] = -1
        /\ Sextet(DataTriple(data, g), i) \in 0..63
    BY GroupOfText
  <2>2. ~(-1 >= 0) /\ \A q \in 0..63 : q >= 0
    OBVIOUS
  <2>3. Sextet(DataTriple(data, g), i) = Character(a, b, c)[i]
    BY <1>1, <1>2, SextetsOfBytes
  <2>4. i <= j + 1 => There(data, cut, 4*g + i)
    <3>1. 4*g + i \in Nat /\ 4*g + j + 1 \in Nat /\ (i <= j + 1 => 4*g + i <= 4*g + j + 1)
      BY <1>1
    <3> QED
      BY <3>1, ThereBefore
  <2>5. CASE There(data, cut, 4*g + i)
    BY <2>1, <2>2, <2>3, <2>5
  <2>6. CASE ~There(data, cut, 4*g + i)
    <3>1. val(i) = 0
      BY <2>1, <2>2, <2>6
    <3> QED
      BY <2>4, <2>6, <3>1
  <2> QED
    BY <2>5, <2>6
<1>4. TextTriple(s, g) = Four(val(1), val(2), val(3), val(4))
  BY DEF TextTriple, Four
<1> HIDE DEF val
<1>5. /\ val(1) = Character(a, b, c)[1] /\ val(2) = Character(a, b, c)[2]
      /\ val(3) \in 0..63 /\ val(4) \in 0..63
      /\ j > 1 => val(3) = Character(a, b, c)[3]
      /\ j > 2 => val(4) = Character(a, b, c)[4]
  BY <1>3
<1>6. CASE j = 1
  <2>1. PICK y \in Sextets, z \in Sextets : y = val(3) /\ z = val(4)
    BY <1>5 DEF Sextets
  <2>2. TextTriple(s, g) = Four(Character(a, b, c)[1], Character(a, b, c)[2], y, z)
    BY <1>4, <1>5, <2>1
  <2>3. Octet(Four(Character(a, b, c)[1], Character(a, b, c)[2], y, z), 1) = a
    BY <1>1, FirstOctet
  <2> QED
    BY <1>6, <2>2, <2>3 DEF a
<1>7. CASE j = 2
  <2>1. PICK z \in Sextets : z = val(4)
    BY <1>5 DEF Sextets
  <2>2. TextTriple(s, g) = Four(Character(a, b, c)[1], Character(a, b, c)[2], Character(a, b, c)[3], z)
    BY <1>4, <1>5, <1>7, <2>1
  <2>3. Octet(Four(Character(a, b, c)[1], Character(a, b, c)[2], Character(a, b, c)[3], z), 2) = b
    BY <1>1, SecondOctet
  <2> QED
    BY <1>7, <2>2, <2>3 DEF b
<1>8. CASE j = 3
  <2>1. Octet(TextTriple(s, g), 3) = c
    BY <1>1, <1>4, <1>5, <1>8, ThirdOctet
  <2> QED
    BY <1>8, <2>1 DEF c
<1> QED
  BY <1>6, <1>7, <1>8

(* A prefix of the positions picks a prefix. *)
LEMMA PickedPrefix ==
  ASSUME NEW m \in Nat, NEW f
  PROVE  Picked(f, 1..m) = [k \in 1..m |-> f[k]]
<1>1. \A i \in 0..m : Cardinality(1..i) = i
  BY FS_Interval
<1>2. ASSUME NEW i \in 1..m PROVE Rank(1..m, i) = i
  <2> DEFINE upTo == {j \in 1..m : j <= i}
  <2>1. upTo = 1..i
    OBVIOUS
  <2>2. Rank(1..m, i) = Cardinality(upTo)
    BY DEF Rank
  <2> HIDE DEF upTo
  <2>3. i \in 0..m
    OBVIOUS
  <2> QED
    BY <1>1, <2>1, <2>2, <2>3
<1>3. ASSUME NEW k \in 1..m PROVE Position(1..m, k) = k
  BY <1>2 DEF Position
<1>4. Cardinality(1..m) = m
  BY <1>1
<1> QED
  BY <1>3, <1>4 DEF Picked

(* What the first `cut` characters of a text hold. *)
Held(data, cut) == IF (3 * cut) \div 4 <= Len(data) THEN (3 * cut) \div 4 ELSE Len(data)

LEMMA HeldType ==
  ASSUME NEW data \in Seq(Bytes), NEW cut \in Nat
  PROVE  Held(data, cut) \in Nat /\ Held(data, cut) \in 0..Len(data)
         /\ Held(data, cut) \in 0..(3 * ((cut + 3) \div 4))
<1>1. Len(data) \in Nat /\ (3 * cut) \div 4 \in Nat /\ (3 * cut) \div 4 <= 3 * ((cut + 3) \div 4)
  BY LenProperties
<1> QED
  BY <1>1 DEF Held

LEMMA DecodeShows ==
  ASSUME NEW data \in Seq(Bytes), NEW cut \in Nat, NEW input, Shows(Padded(input), data, cut)
  PROVE  Decode(input) = [k \in 1..Held(data, cut) |-> data[k]]
<1> DEFINE s == Padded(input)
           size == 3 * (Len(s) \div 4)
           m == Held(data, cut)
           octets == [k \in 1..size |-> Octet(TextTriple(s, Group(k, 3)), Place(k, 3))]
           there == {k \in DOMAIN octets : /\ Reached(s, Group(k, 3))
                                          /\ ~Missing(s, Group(k, 3), Place(k, 3))}
<1>1. Decode(input) = Picked(octets, there)
  BY DEF Decode
<1>2. size = 3 * ((cut + 3) \div 4) /\ DOMAIN octets = 1..size
  BY DEF Shows
<1>3. m \in Nat /\ m <= size /\ m <= Len(data) /\ Len(data) \in Nat
  BY <1>2, HeldType, LenProperties
<1>4. ASSUME NEW k \in 1..size
      PROVE  /\ k \in Nat \ {0}
             /\ Group(k, 3) \in 0..((cut + 3) \div 4 - 1) /\ Place(k, 3) \in 1..3
             /\ 3 * Group(k, 3) + Place(k, 3) = k
  BY <1>2 DEF Group, Place
<1>5. ASSUME NEW k \in 1..size
      PROVE  There(data, cut, 4 * Group(k, 3) + Place(k, 3) + 1) <=> k <= m
  <2>1. 4 * Group(k, 3) + Place(k, 3) + 1 <= cut <=> k <= (3 * cut) \div 4
    BY <1>4, BytesInText
  <2>2. 4 * Group(k, 3) + Place(k, 3) + 1 <= Characters(Len(data)) <=> k <= Len(data)
    BY <1>3, <1>4, BytesInCharacters
  <2>3. k <= m <=> k <= (3 * cut) \div 4 /\ k <= Len(data)
    BY <1>3, <1>4 DEF Held
  <2> QED
    BY <2>1, <2>2, <2>3 DEF There
<1> HIDE DEF s, size, m
<1>6. ASSUME NEW k \in 1..size
      PROVE  /\ Reached(s, Group(k, 3)) /\ ~Missing(s, Group(k, 3), Place(k, 3)) <=> k <= m
             /\ k <= m => octets[k] = data[k]
  <2>1. Shows(s, data, cut)
    BY DEF s
  <2>2. Reached(s, Group(k, 3)) /\ ~Missing(s, Group(k, 3), Place(k, 3))
          <=> There(data, cut, 4 * Group(k, 3) + Place(k, 3) + 1)
    BY <1>4, <2>1, DecodedIfThere
  <2>3. There(data, cut, 4 * Group(k, 3) + Place(k, 3) + 1)
          => Octet(TextTriple(s, Group(k, 3)), Place(k, 3)) = ByteAt(data, 3 * Group(k, 3) + Place(k, 3))
    BY <1>4, <2>1, DecodedByte
  <2>4. k <= m => ByteAt(data, 3 * Group(k, 3) + Place(k, 3)) = data[k]
    BY <1>3, <1>4 DEF ByteAt
  <2> QED
    BY <1>5, <2>2, <2>3, <2>4
<1>7. there = 1..m
  BY <1>2, <1>3, <1>6
<1>8. \A k \in 1..m : octets[k] = data[k]
  <2>1. \A k \in 1..m : k \in 1..size /\ k <= m
    BY <1>2, <1>3
  <2> QED
    BY <1>6, <2>1
<1> HIDE DEF octets, there
<1>9. Picked(octets, 1..m) = [k \in 1..m |-> octets[k]]
  BY <1>3, PickedPrefix
<1> QED
  BY <1>1, <1>7, <1>8, <1>9 DEF m

(* decode of what arrives of a text that encode made. *)
LEMMA DecodeReceived ==
  ASSUME NEW data \in Seq(Bytes), NEW style \in {"standard", "url_safe", "dotted"},
         NEW cut \in 0..Len(Encode(data, style = "url_safe"))
  PROVE  Decode(Received(data, style, cut)) = [k \in 1..Held(data, cut) |-> data[k]]
<1>1. Shows(Padded(Received(data, style, cut)), data, cut)
  BY ReceivedShape
<1>2. cut \in Nat
  OBVIOUS
<1> QED
  BY <1>1, <1>2, DecodeShows

-----------------------------------------------------------------------------
(* Scrambled data: the server subtracts 97 of each byte, the client adds it. *)
LEMMA ScrambledBytes ==
  ASSUME NEW data \in Seq(Bytes)
  PROVE  LET scrambled == [i \in DOMAIN data |-> (data[i] + 159) % 256]
         IN /\ scrambled \in Seq(Bytes) /\ Len(scrambled) = Len(data)
            /\ \A k \in DOMAIN data : (scrambled[k] + 97) % 256 = data[k]
<1> DEFINE scrambled == [i \in DOMAIN data |-> (data[i] + 159) % 256]
<1>1. Len(data) \in Nat /\ DOMAIN data = 1..Len(data) /\ \A k \in 1..Len(data) : data[k] \in Bytes
  BY LenProperties, ElementOfSeq
<1>2. \A x \in Bytes : (x + 159) % 256 \in Bytes /\ (((x + 159) % 256) + 97) % 256 = x
  BY DEF Bytes
<1>3. scrambled \in [1..Len(data) -> Bytes]
  BY <1>1, <1>2
<1>4. scrambled \in Seq(Bytes) /\ Len(scrambled) = Len(data)
  BY <1>1, <1>3, SeqDef, LenProperties
<1> QED
  BY <1>1, <1>2, <1>4

LEMMA PrefixOfBytes ==
  ASSUME NEW data \in Seq(Bytes), NEW m \in 0..Len(data)
  PROVE  [k \in 1..m |-> data[k]] = SubSeq(data, 1, m)
<1>1. Len(data) \in Nat /\ DOMAIN data = 1..Len(data) /\ \A k \in 1..Len(data) : data[k] \in Bytes
  BY LenProperties, ElementOfSeq
<1>2. m \in Nat /\ \A i \in 1..m : data[i] \in Bytes
  BY <1>1
<1>3. /\ SubSeq(data, 1, m) \in Seq(Bytes)
      /\ Len(SubSeq(data, 1, m)) = m
      /\ \A i \in 1..m : SubSeq(data, 1, m)[i] = data[i]
  BY <1>2, SubSeqProperties
<1>4. SubSeq(data, 1, m) = [k \in 1..m |-> SubSeq(data, 1, m)[k]]
  BY <1>3, SeqDef, LenProperties
<1> QED
  BY <1>3, <1>4

(* For data of any length, in either alphabet and cut anywhere: what arrives
   of a base64 text decodes to the bytes it holds in full and to no other. *)
THEOREM DecodeRecovers == Spec => []DecodeRecoversPrefix
<1> DEFINE Asked == call \in Calls
<1>1. Init => Asked /\ DecodeRecoversPrefix
  BY DEF Init, DecodeRecoversPrefix
<1>2. Asked /\ DecodeRecoversPrefix /\ [Next]_vars => Asked' /\ DecodeRecoversPrefix'
  <2> SUFFICES ASSUME Asked, DecodeRecoversPrefix, [Next]_vars
               PROVE  Asked' /\ DecodeRecoversPrefix'
    OBVIOUS
  <2>1. CASE UNCHANGED vars
    BY <2>1 DEF vars, DecodeRecoversPrefix
  <2>2. CASE Next
    <3>1. call' = call /\ Asked'
      BY <2>2 DEF Next
    <3>2. DecodeRecoversPrefix' <=>
            (answer' # None /\ call.op \in {"decode", "descramble"} =>
               answer' = SubSeq(call.data, 1, Held(call.data, call.cut)))
      BY <3>1 DEF DecodeRecoversPrefix, Held
    <3> SUFFICES ASSUME call.op \in {"decode", "descramble"}
                 PROVE  answer' = SubSeq(call.data, 1, Held(call.data, call.cut))
      BY <3>1, <3>2
    <3>3. /\ call.data \in Seq(Bytes) /\ call.style \in {"standard", "url_safe", "dotted"}
          /\ call.cut \in 0..Len(Encode(call.data, call.style = "url_safe"))
      BY CallsAssumption
    <3> DEFINE data == call.data
               m == Held(call.data, call.cut)
    <3>4. call.cut \in Nat /\ m \in 0..Len(data) /\ [k \in 1..m |-> data[k]] = SubSeq(data, 1, m)
      <4>1. call.cut \in Nat
        BY <3>3
      <4>2. m \in 0..Len(data)
        BY <3>3, <4>1, HeldType
      <4> HIDE DEF m
      <4>3. [k \in 1..m |-> data[k]] = SubSeq(data, 1, m)
        BY <3>3, <4>2, PrefixOfBytes
      <4> QED
        BY <4>1, <4>2, <4>3
    <3>5. CASE DecodeText
      BY <3>3, <3>4, <3>5, DecodeReceived DEF DecodeText
    <3>6. CASE DescrambleText
      <4> DEFINE scrambled == [i \in DOMAIN data |-> (data[i] + 159) % 256]
      <4>1. /\ scrambled \in Seq(Bytes) /\ Len(scrambled) = Len(data)
            /\ \A k \in DOMAIN data : (scrambled[k] + 97) % 256 = data[k]
        BY <3>3, ScrambledBytes
      <4>2. answer' = Descramble(Received(scrambled, call.style, call.cut))
        BY <3>6 DEF DescrambleText
      <4> HIDE DEF scrambled
      <4>3. Len(Encode(scrambled, call.style = "url_safe")) = Len(Encode(data, call.style = "url_safe"))
        <5>1. (call.style = "url_safe") \in BOOLEAN /\ Len(data) \in Nat
          BY <3>3, LenProperties
        <5> QED
          BY <4>1, <5>1, EncodeLength
      <4>4. Decode(Received(scrambled, call.style, call.cut))
              = [k \in 1..Held(scrambled, call.cut) |-> scrambled[k]]
        <5>1. call.cut \in 0..Len(Encode(scrambled, call.style = "url_safe"))
          BY <3>3, <4>3
        <5> QED
          BY <3>3, <4>1, <5>1, DecodeReceived
      <4>5. Held(scrambled, call.cut) = m
        BY <4>1 DEF Held
      <4>6. answer' = [k \in 1..m |-> (scrambled[k] + 97) % 256]
        BY <4>2, <4>4, <4>5 DEF Descramble
      <4>7. \A k \in 1..m : k \in DOMAIN data
        BY <3>3, <3>4, LenProperties
      <4>8. answer' = [k \in 1..m |-> data[k]]
        BY <4>1, <4>6, <4>7
      <4> QED
        BY <3>4, <4>8
    <3>7. CASE MakePlaceholder \/ ParseCreate \/ ParseBoth \/ ReadVisitor
      BY <3>7 DEF MakePlaceholder, ParseCreate, ParseBoth, ReadVisitor
    <3> QED
      BY <2>2, <3>5, <3>6, <3>7 DEF Next, AnswerAtOnce
  <2> QED
    BY <2>1, <2>2
<1> QED
  BY <1>1, <1>2, PTL DEF Spec

-----------------------------------------------------------------------------
(* Exclusive or, bit by bit.                                                *)

Binary == 0..1

Weights == {1, 2, 4, 8, 16, 32, 64, 128}

FromBits(f) ==
  f[1] + 2 * f[2] + 4 * f[4] + 8 * f[8] + 16 * f[16] + 32 * f[32] + 64 * f[64] + 128 * f[128]

BitsOf(a) == [w \in Weights |-> Bit(a, w)]

Differ(x, y) == (x + y) % 2

LEMMA BitsOfByte ==
  ASSUME NEW a \in Bytes
  PROVE  BitsOf(a) \in [Weights -> Binary] /\ FromBits(BitsOf(a)) = a
<1>1. /\ Bit(a, 1) \in 0..1 /\ Bit(a, 2) \in 0..1 /\ Bit(a, 4) \in 0..1 /\ Bit(a, 8) \in 0..1
      /\ Bit(a, 16) \in 0..1 /\ Bit(a, 32) \in 0..1 /\ Bit(a, 64) \in 0..1 /\ Bit(a, 128) \in 0..1
      /\ a = Bit(a, 1) + 2 * Bit(a, 2) + 4 * Bit(a, 4) + 8 * Bit(a, 8) + 16 * Bit(a, 16)
             + 32 * Bit(a, 32) + 64 * Bit(a, 64) + 128 * Bit(a, 128)
  BY SMT DEF Bit, Bytes
<1> QED
  BY <1>1, SMT DEF Weights, Binary, FromBits, BitsOf

LEMMA ByteOfBits ==
  ASSUME NEW f \in [Weights -> Binary]
  PROVE  FromBits(f) \in Bytes /\ BitsOf(FromBits(f)) = f
<1> DEFINE x == FromBits(f)
<1>1. PICK b1 \in 0..1, b2 \in 0..1, b3 \in 0..1, b4 \in 0..1,
           b5 \in 0..1, b6 \in 0..1, b7 \in 0..1, b8 \in 0..1 :
        /\ f[1] = b1 /\ f[2] = b2 /\ f[4] = b3 /\ f[8] = b4
        /\ f[16] = b5 /\ f[32] = b6 /\ f[64] = b7 /\ f[128] = b8
  BY SMT DEF Weights, Binary
<1>2. x = b1 + 2 * b2 + 4 * b3 + 8 * b4 + 16 * b5 + 32 * b6 + 64 * b7 + 128 * b8
  BY <1>1 DEF FromBits
<1> HIDE DEF x
<1>3. /\ x \in 0..255
      /\ Bit(x, 1) = b1 /\ Bit(x, 2) = b2 /\ Bit(x, 4) = b3 /\ Bit(x, 8) = b4
      /\ Bit(x, 16) = b5 /\ Bit(x, 32) = b6 /\ Bit(x, 64) = b7 /\ Bit(x, 128) = b8
  BY <1>2, SMT DEF Bit
<1>4. \A w \in Weights : Bit(x, w) = f[w]
  BY <1>1, <1>3, SMT DEF Weights
<1> QED
  BY <1>3, <1>4 DEF x, Bytes, BitsOf

LEMMA DifferTwice ==
  ASSUME NEW x \in Binary, NEW y \in Binary
  PROVE  Differ(x, y) \in Binary /\ Differ(Differ(x, y), y) = x
BY DEF Differ, Binary

LEMMA XorBits ==
  ASSUME NEW a \in Bytes, NEW b \in Bytes
  PROVE  Xor(a, b) = FromBits([w \in Weights |-> Differ(BitsOf(a)[w], BitsOf(b)[w])])
<1>1. \A w \in Weights : Differ(Bit(a, w), Bit(b, w)) \in Binary
  BY BitsOfByte, DifferTwice DEF BitsOf
<1>2. /\ Differ(Bit(a, 1), Bit(b, 1)) \in Int
      /\ 1 * Differ(Bit(a, 1), Bit(b, 1)) = Differ(Bit(a, 1), Bit(b, 1))
  BY <1>1 DEF Weights, Binary
<1> QED
  BY <1>2, SMT DEF Xor, FromBits, BitsOf, Weights, Differ

(* Masking with the same byte twice leaves what was there. *)
LEMMA XorTwice ==
  ASSUME NEW a \in Bytes, NEW b \in Bytes
  PROVE  Xor(a, b) \in Bytes /\ Xor(Xor(a, b), b) = a
<1> DEFINE f == BitsOf(a)
           g == BitsOf(b)
           d == [w \in Weights |-> Differ(f[w], g[w])]
           x == FromBits(d)
<1>1. f \in [Weights -> Binary] /\ g \in [Weights -> Binary] /\ FromBits(f) = a
  BY BitsOfByte
<1>2. Xor(a, b) = x
  BY XorBits
<1> HIDE DEF f, g
<1>3. d \in [Weights -> Binary] /\ [w \in Weights |-> Differ(d[w], g[w])] = f
  BY <1>1, DifferTwice
<1> HIDE DEF d
<1>4. x \in Bytes /\ BitsOf(x) = d
  BY <1>3, ByteOfBits
<1> HIDE DEF x
<1>5. Xor(x, b) = FromBits([w \in Weights |-> Differ(d[w], g[w])])
  BY <1>4, XorBits DEF g
<1> QED
  BY <1>1, <1>2, <1>3, <1>4, <1>5

-----------------------------------------------------------------------------
(* Placeholder tokens.                                                      *)

(* The whole text decodes to the whole data. *)
LEMMA DecodeEncode ==
  ASSUME NEW data \in Seq(Bytes), NEW url_safe \in BOOLEAN
  PROVE  Decode(Encode(data, url_safe)) = data
<1> DEFINE text == Encode(data, url_safe)
           n == Characters(Len(data))
           size == Len(text)
<1>1. /\ size \in Nat /\ DOMAIN text = 1..size /\ n <= size /\ size <= 4 * ((n + 3) \div 4)
      /\ \A k \in DOMAIN text :
           IF k <= n THEN text[k] # Eq /\ Normal(text[k]) = STANDARD_CHARS[SextetAt(data, k)]
           ELSE text[k] = Eq
  BY EncodeShape
<1>2. Len(data) \in Nat /\ DOMAIN data = 1..Len(data) /\ n \in Nat
  BY CharactersType, LenProperties
<1>3. Held(data, n) = Len(data)
  <2>1. \A m \in Nat : m <= (3 * Characters(m)) \div 4 /\ (3 * Characters(m)) \div 4 \in Nat
    BY SMT DEF Characters
  <2> QED
    BY <1>2, <2>1 DEF Held
<1> HIDE DEF text, n, size
<1>4. 4 * ((size + 3) \div 4) = 4 * ((n + 3) \div 4)
  BY <1>1, <1>2, SMT
<1>5. /\ Len(Padded(text)) = 4 * ((n + 3) \div 4)
      /\ DOMAIN Padded(text) = 1..(4 * ((n + 3) \div 4))
      /\ \A k \in DOMAIN Padded(text) : Padded(text)[k] = IF k <= size THEN Normal(text[k]) ELSE Eq
  <2>1. size = Len(text)
    BY DEF size
  <2> QED
    BY <1>1, <1>4, <2>1, PaddedShape
<1>6. ASSUME NEW k \in DOMAIN Padded(text)
      PROVE  Padded(text)[k] = IF k <= n THEN STANDARD_CHARS[SextetAt(data, k)] ELSE Eq
  <2>1. k \in Nat /\ k >= 1 /\ (k <= size => k \in DOMAIN text) /\ (k <= n => k <= size)
    BY <1>1, <1>2, <1>5
  <2>2. Padded(text)[k] = IF k <= size THEN Normal(text[k]) ELSE Eq
    BY <1>5
  <2> QED
    BY <1>1, <2>1, <2>2, Padding
<1>7. Shows(Padded(text), data, n)
  BY <1>5, <1>6 DEF Shows, n
<1>8. Decode(text) = [k \in 1..Held(data, n) |-> data[k]]
  BY <1>2, <1>7, DecodeShows
<1>9. data = [k \in 1..Len(data) |-> data[k]]
  BY SeqDef, LenProperties
<1> QED
  BY <1>3, <1>8, <1>9 DEF text

LEMMA BytesFirst ==
  ASSUME NEW s \in Seq(Bytes), NEW t \in Seq(Bytes), Len(s) >= 2
  PROVE  /\ s \o t \in Seq(Bytes) /\ Len(s \o t) = Len(s) + Len(t)
         /\ (s \o t)[1] = s[1] /\ (s \o t)[2] = s[2]
<1>1. /\ s \o t \in Seq(Bytes) /\ Len(s \o t) = Len(s) + Len(t)
      /\ \A i \in 1..(Len(s) + Len(t)) : (s \o t)[i] = IF i <= Len(s) THEN s[i] ELSE t[i - Len(s)]
  BY ConcatProperties, Zenon
<1>2. Len(s) \in Nat /\ Len(t) \in Nat
  BY LenProperties
<1>3. 1 \in 1..(Len(s) + Len(t)) /\ 2 \in 1..(Len(s) + Len(t)) /\ 1 <= Len(s) /\ 2 <= Len(s)
  BY <1>2
<1> QED
  BY <1>1, <1>3

(* What is masked: the keys, a header and the identifier. *)
Payload(c) == c.keys \o <<0, c.client_state>> \o Clock(c.timestamp) \o c.identifier

LEMMA PayloadShape ==
  ASSUME NEW c, c.identifier \in Seq(Bytes), c.client_state \in Bytes, c.timestamp \in Nat,
         c.keys \in Seq(Bytes), Len(c.keys) = 2
  PROVE  /\ Payload(c) \in Seq(Bytes) /\ Len(Payload(c)) = 8 + Len(c.identifier)
         /\ Payload(c)[1] = c.keys[1] /\ Payload(c)[2] = c.keys[2]
<1> DEFINE header == <<0, c.client_state>>
           clock == Clock(c.timestamp)
<1>1. header \in Seq(Bytes) /\ Len(header) = 2
  BY DEF Bytes
<1>2. clock \in Seq(Bytes) /\ Len(clock) = 4
  <2> DEFINE weight(k) == <<16777216, 65536, 256, 1>>[k]
             size == 4
  <2>1. clock = [k \in 1..size |-> (c.timestamp \div weight(k)) % 256]
    BY SMT DEF Clock
  <2>2. \A k \in 1..size : weight(k) \in Nat \ {0}
    BY SMT, \A k \in 1..4 : k \in {1, 2, 3, 4}
  <2>3. size \in Nat
    OBVIOUS
  <2> HIDE DEF weight, size, clock
  <2>4. \A w \in Nat \ {0} : c.timestamp \div w \in Nat
    OBVIOUS
  <2>5. \A x \in Nat : x % 256 \in Bytes
    BY DEF Bytes
  <2>6. clock \in [1..size -> Bytes]
    BY <2>1, <2>2, <2>4, <2>5
  <2>7. clock \in Seq(Bytes) /\ Len(clock) = size
    BY <2>3, <2>6, SeqDef, LenProperties
  <2> QED
    BY <2>7 DEF size
<1> HIDE DEF header, clock
<1>3. /\ c.keys \o header \in Seq(Bytes) /\ Len(c.keys \o header) = 2 + 2
      /\ (c.keys \o header)[1] = c.keys[1] /\ (c.keys \o header)[2] = c.keys[2]
  <2>1. Len(c.keys) >= 2 /\ c.keys \in Seq(Bytes) /\ header \in Seq(Bytes)
    BY <1>1
  <2>2. /\ c.keys \o header \in Seq(Bytes) /\ Len(c.keys \o header) = Len(c.keys) + Len(header)
        /\ (c.keys \o header)[1] = c.keys[1] /\ (c.keys \o header)[2] = c.keys[2]
    BY <2>1, BytesFirst
  <2> QED
    BY <1>1, <2>2
<1> DEFINE start == c.keys \o header
           before == start \o clock
<1> HIDE DEF start
<1>4. /\ before \in Seq(Bytes) /\ Len(before) = 4 + 4
      /\ before[1] = c.keys[1] /\ before[2] = c.keys[2]
  <2>1. Len(start) >= 2 /\ start \in Seq(Bytes) /\ clock \in Seq(Bytes)
    BY <1>2, <1>3 DEF start
  <2>2. /\ start \o clock \in Seq(Bytes) /\ Len(start \o clock) = Len(start) + Len(clock)
        /\ (start \o clock)[1] = start[1] /\ (start \o clock)[2] = start[2]
    BY <2>1, BytesFirst
  <2> QED
    BY <1>2, <1>3, <2>2 DEF start
<1>5. Payload(c) = before \o c.identifier
  BY DEF Payload, header, clock, start
<1> HIDE DEF before
<1> QED
  <2>1. Len(before) >= 2 /\ before \in Seq(Bytes) /\ c.identifier \in Seq(Bytes)
    BY <1>4, <1>5
  <2>2. /\ before \o c.identifier \in Seq(Bytes) /\ Len(before \o c.identifier) = Len(before) + Len(c.identifier)
        /\ (before \o c.identifier)[1] = before[1] /\ (before \o c.identifier)[2] = before[2]
    BY <2>1, BytesFirst
  <2> QED
    BY <1>4, <1>5, <2>2

(* What a token decodes to. *)
LEMMA TokenOpens ==
  ASSUME NEW c, c.identifier \in Seq(Bytes), c.client_state \in Bytes, c.timestamp \in Nat,
         c.keys \in Seq(Bytes), Len(c.keys) = 2, PlaceholderFits(c.identifier)
  PROVE  LET packet == Decode(GeneratePlaceholderToken(c.identifier, c.client_state, c.timestamp, c.keys))
         IN /\ packet[1] = 34 /\ packet[2] = Len(packet) - 2
            /\ Unmasked(packet) = Payload(c)
<1> DEFINE payload == Payload(c)
           masked == [i \in DOMAIN payload |->
                        IF i <= 2 THEN payload[i] ELSE Xor(payload[i], c.keys[Place(i, 2)])]
           front == <<34, Len(payload) % 256>>
           packet == front \o masked
           size == Len(payload)
<1>1. GeneratePlaceholderToken(c.identifier, c.client_state, c.timestamp, c.keys) = Encode(packet, TRUE)
  BY DEF GeneratePlaceholderToken, Payload
<1>2. /\ payload \in Seq(Bytes) /\ size = 8 + Len(c.identifier)
      /\ payload[1] = c.keys[1] /\ payload[2] = c.keys[2]
  BY PayloadShape
<1> HIDE DEF payload, size
<1>3. size \in 8..126 /\ DOMAIN payload = 1..size
  <2>1. Len(c.identifier) \in Nat /\ DOMAIN payload = 1..size
    BY <1>2, LenProperties DEF size
  <2>2. Len(c.identifier) <= 118
    BY DEF PlaceholderFits
  <2>3. \A n \in Nat : n <= 118 => 8 + n \in 8..126
    OBVIOUS
  <2>4. 8 + Len(c.identifier) \in 8..126
    BY <2>1, <2>2, <2>3
  <2> QED
    BY <1>2, <2>1, <2>4
<1>4. \A i \in 1..size : payload[i] \in Bytes /\ Place(i, 2) \in 1..2 /\ c.keys[Place(i, 2)] \in Bytes
  <2>1. \A i \in 1..size : payload[i] \in Bytes /\ Place(i, 2) \in 1..2
    BY <1>2, <1>3, ElementOfSeq DEF Place
  <2>2. \A p \in 1..2 : c.keys[p] \in Bytes
    BY ElementOfSeq
  <2> QED
    BY <2>1, <2>2
<1>5. masked \in Seq(Bytes) /\ Len(masked) = size
  <2>1. size \in Nat
    BY <1>3
  <2>2. masked \in [1..size -> Bytes]
    BY <1>3, <1>4, XorTwice
  <2> HIDE DEF masked
  <2> QED
    BY <2>1, <2>2, SeqDef, LenProperties
<1>6. front \in Seq(Bytes) /\ Len(front) = 2 /\ front[1] = 34 /\ front[2] = size
  <2>1. size % 256 = size /\ size \in Bytes /\ 34 \in Bytes
    <3>1. \A q \in 0..255 : q % 256 = q
      OBVIOUS
    <3>2. size \in 0..255
      BY <1>3
    <3>3. size % 256 = size
      BY <3>1, <3>2
    <3> QED
      BY <3>2, <3>3 DEF Bytes
  <2>2. front = <<34, size>>
    BY <2>1 DEF size
  <2> QED
    BY <2>1, <2>2
<1>7. \A i \in 1..size : /\ masked[i] = IF i <= 2 THEN payload[i]
                                        ELSE Xor(payload[i], c.keys[Place(i, 2)])
                         /\ i > 2 => Xor(masked[i], c.keys[Place(i, 2)]) = payload[i]
  BY <1>3, <1>4, XorTwice
<1> HIDE DEF front, masked
<1>8. /\ packet \in Seq(Bytes) /\ Len(packet) = size + 2
      /\ packet[1] = 34 /\ packet[2] = size
      /\ \A i \in 1..size : packet[2 + i] = masked[i]
  <2>1. /\ packet \in Seq(Bytes) /\ Len(packet) = Len(front) + Len(masked)
        /\ \A i \in 1..(Len(front) + Len(masked)) :
             packet[i] = IF i <= Len(front) THEN front[i] ELSE masked[i - Len(front)]
    BY <1>5, <1>6, ConcatProperties, Zenon
  <2>2. \A i \in 1..size : 2 + i \in 1..(2 + size) /\ ~(2 + i <= 2) /\ (2 + i) - 2 = i
    BY <1>3
  <2>3. 1 \in 1..(2 + size) /\ 2 \in 1..(2 + size) /\ size + 2 = 2 + size
    BY <1>3
  <2> HIDE DEF packet
  <2> QED
    BY <1>5, <1>6, <2>1, <2>2, <2>3
<1> HIDE DEF packet
<1>9. Decode(Encode(packet, TRUE)) = packet
  BY <1>8, TRUE \in BOOLEAN, DecodeEncode
<1>10. Unmasked(packet) = payload
  <2>1. \A p \in 1..2 : packet[2 + p] = c.keys[p]
    <3>1. packet[2 + 1] = masked[1] /\ packet[2 + 2] = masked[2]
      BY <1>3, <1>8
    <3>2. masked[1] = payload[1] /\ masked[2] = payload[2]
      BY <1>3, <1>7
    <3> QED
      BY <1>2, <3>1, <3>2
  <2>2. Len(packet) - 2 = size
    BY <1>3, <1>8
  <2>3. \A i \in 1..size : (IF i <= 2 THEN packet[2 + i]
                            ELSE Xor(packet[2 + i], packet[2 + Place(i, 2)])) = payload[i]
    <3> SUFFICES ASSUME NEW i \in 1..size
                 PROVE  (IF i <= 2 THEN packet[2 + i]
                         ELSE Xor(packet[2 + i], packet[2 + Place(i, 2)])) = payload[i]
      OBVIOUS
    <3>1. packet[2 + i] = masked[i] /\ packet[2 + Place(i, 2)] = c.keys[Place(i, 2)]
      BY <1>4, <1>8, <2>1
    <3>2. CASE i <= 2
      BY <1>7, <3>1, <3>2
    <3>3. CASE ~(i <= 2)
      <4>1. i > 2
        BY <1>3, <3>3
      <4> QED
        BY <1>7, <3>1, <3>3, <4>1
    <3> QED
      BY <3>2, <3>3
  <2>4. Unmasked(packet) = [i \in 1..size |-> payload[i]]
    BY <2>2, <2>3 DEF Unmasked
  <2>5. payload = [i \in 1..size |-> payload[i]]
    BY <1>2, <1>3, SeqDef, LenProperties
  <2> QED
    BY <2>4, <2>5
<1>11. Len(packet) - 2 = size
  BY <1>3, <1>8
<1> QED
  BY <1>1, <1>8, <1>9, <1>10, <1>11 DEF payload, masked, front, packet, size

(* A placeholder token opens to what went into it, for identifiers, times and
   keys of any value; one that does not fit is refused. *)
THEOREM TokensOpen == Spec => []PlaceholderOpens
<1> DEFINE Asked == call \in Calls
<1>1. Init => Asked /\ PlaceholderOpens
  BY DEF Init, PlaceholderOpens
<1>2. Asked /\ PlaceholderOpens /\ [Next]_vars => Asked' /\ PlaceholderOpens'
  <2> SUFFICES ASSUME Asked, PlaceholderOpens, [Next]_vars
               PROVE  Asked' /\ PlaceholderOpens'
    OBVIOUS
  <2>1. CASE UNCHANGED vars
    BY <2>1 DEF vars, PlaceholderOpens
  <2>2. CASE Next
    <3>1. call' = call /\ Asked'
      BY <2>2 DEF Next
    <3> DEFINE packet == Decode(answer')
    <3>2. PlaceholderOpens' <=>
            (call.op = "placeholder" /\ answer' # None =>
               /\ packet[1] = 34 /\ packet[2] = Len(packet) - 2
               /\ Unmasked(packet) = Payload(call))
      BY <3>1 DEF PlaceholderOpens, Payload
    <3> SUFFICES ASSUME call.op = "placeholder", answer' # None
                 PROVE  /\ packet[1] = 34 /\ packet[2] = Len(packet) - 2
                        /\ Unmasked(packet) = Payload(call)
      BY <3>1, <3>2
    <3>3. /\ call.identifier \in Seq(Bytes) /\ call.client_state \in Bytes /\ call.timestamp \in Nat
          /\ call.keys \in Seq(Bytes) /\ Len(call.keys) = 2
      BY CallsAssumption
    <3>4. MakePlaceholder
      BY <2>2 DEF Next, AnswerAtOnce, DecodeText, DescrambleText, ParseCreate, ParseBoth, ReadVisitor
    <3>5. /\ answer' = GeneratePlaceholderToken(call.identifier, call.client_state, call.timestamp, call.keys)
          /\ PlaceholderFits(call.identifier)
      BY <3>4 DEF MakePlaceholder, GeneratePlaceholderToken
    <3> QED
      BY <3>3, <3>5, TokenOpens
  <2> QED
    BY <2>1, <2>2
<1> QED
  BY <1>1, <1>2, PTL DEF Spec

-----------------------------------------------------------------------------
(* The interpreter of a challenge.                                          *)

Least(I) == CHOOSE i \in I : \A j \in I : i <= j

LEMMA LeastPicked ==
  ASSUME NEW s, IsSeq(s), NEW I \in SUBSET DOMAIN s, I # {}
  PROVE  /\ Least(I) \in I /\ \A j \in I : Least(I) <= j
         /\ IsSeq(Picked(s, I)) /\ 1 \in DOMAIN Picked(s, I) /\ Picked(s, I)[1] = s[Least(I)]
<1> DEFINE n == Len(s)
           size == Cardinality(I)
           i == Position(I, 1)
<1>1. n \in Nat /\ DOMAIN s = 1..n
  BY SeqShape
<1> HIDE DEF n
<1>2. /\ size \in Nat
      /\ \A k \in 1..size : Position(I, k) \in I
      /\ \A k, l \in 1..size : k < l => Position(I, k) < Position(I, l)
      /\ \A j \in I : \E k \in 1..size : Position(I, k) = j
  BY <1>1, PositionProperties
<1> HIDE DEF size
<1>3. 1 \in 1..size
  BY <1>2
<1>4. i \in I /\ \A j \in I : i <= j
  <2>1. ASSUME NEW j \in I PROVE i <= j
    <3>1. PICK k \in 1..size : Position(I, k) = j
      BY <1>2
    <3>2. k = 1 \/ 1 < k
      BY <1>2
    <3>3. i = j \/ i < j
      BY <1>2, <1>3, <3>1, <3>2
    <3> QED
      BY <1>1, <1>2, <1>3, <3>3
  <2> QED
    BY <1>2, <1>3, <2>1
<1> HIDE DEF i
<1>5. Least(I) = i
  <2>1. \A l \in I : (\A j \in I : l <= j) => l = i
    BY <1>1, <1>4
  <2> QED
    BY <1>4, <2>1 DEF Least
<1>6. IsSeq(Picked(s, I)) /\ DOMAIN Picked(s, I) = 1..size
  <2>1. Picked(s, I) = [k \in 1..size |-> s[Position(I, k)]]
    BY DEF Picked, size
  <2> QED
    BY <1>2, <2>1, FunctionShape
<1>7. Picked(s, I)[1] = s[i]
  BY <1>3 DEF Picked, size, i
<1> QED
  BY <1>3, <1>4, <1>5, <1>6, <1>7

LEMMA NothingPicked ==
  ASSUME NEW s PROVE Picked(s, {}) = << >>
BY FS_EmptySet DEF Picked

(* Two vectors in a row, and the places in them that are looked for. *)
InARow(s, t, c) ==
  /\ IsSeq(c) /\ Len(s) \in Nat
  /\ DOMAIN s = 1..Len(s) /\ DOMAIN t \in SUBSET (Nat \ {0})
  /\ \A k \in DOMAIN s : k \in DOMAIN c /\ c[k] = s[k]
  /\ \A k \in DOMAIN t : Len(s) + k \in DOMAIN c /\ c[Len(s) + k] = t[k]
  /\ \A k \in DOMAIN c : k \in DOMAIN s \/ \E l \in DOMAIN t : k = Len(s) + l

LEMMA ConcatInARow ==
  ASSUME NEW s, NEW t, IsSeq(s), IsSeq(t), NEW c, c = s \o t
  PROVE  InARow(s, t, c)
<1> DEFINE S == {s[i] : i \in DOMAIN s} \cup {t[i] : i \in DOMAIN t}
<1>1. s \in Seq(S) /\ t \in Seq(S)
  BY SeqMonotonic DEF IsSeq
<1> HIDE DEF S
<1>2. /\ s \o t \in Seq(S) /\ Len(s \o t) = Len(s) + Len(t)
      /\ \A i \in 1..(Len(s) + Len(t)) : (s \o t)[i] = IF i <= Len(s) THEN s[i] ELSE t[i - Len(s)]
  BY <1>1, ConcatProperties, Zenon
<1>3. /\ c \in Seq(S) /\ Len(c) = Len(s) + Len(t)
      /\ \A i \in 1..(Len(s) + Len(t)) : c[i] = IF i <= Len(s) THEN s[i] ELSE t[i - Len(s)]
  BY <1>2, Zenon
<1>4. /\ Len(s) \in Nat /\ DOMAIN s = 1..Len(s) /\ Len(t) \in Nat /\ DOMAIN t = 1..Len(t)
      /\ DOMAIN c = 1..(Len(s) + Len(t)) /\ IsSeq(c)
  BY <1>1, <1>3, LenProperties, AnySeq
<1> DEFINE n == Len(s)
           m == Len(t)
<1> HIDE DEF n, m
<1>5. \A k \in 1..n : k \in 1..(n + m) /\ c[k] = s[k]
  BY <1>3, <1>4 DEF n, m
<1>6. \A k \in 1..m : n + k \in 1..(n + m) /\ c[n + k] = t[k]
  <2> SUFFICES ASSUME NEW k \in 1..m PROVE n + k \in 1..(n + m) /\ c[n + k] = t[k]
    OBVIOUS
  <2>1. n + k \in 1..(n + m) /\ ~(n + k <= n) /\ (n + k) - n = k
    BY <1>4 DEF n, m
  <2> QED
    BY <1>3, <2>1 DEF n, m
<1>7. \A k \in 1..(n + m) : k \in 1..n \/ \E l \in 1..m : k = n + l
  <2> SUFFICES ASSUME NEW k \in 1..(n + m), k \notin 1..n PROVE \E l \in 1..m : k = n + l
    OBVIOUS
  <2>1. k - n \in 1..m /\ k = n + (k - n)
    BY <1>4 DEF n, m
  <2> QED
    BY <2>1
<1>8. 1..m \in SUBSET (Nat \ {0})
  BY <1>4 DEF m
<1> QED
  BY <1>4, <1>5, <1>6, <1>7, <1>8 DEF InARow, n, m

Places(s, t, c, I, J, K) ==
  /\ I \in SUBSET DOMAIN s /\ J \in SUBSET DOMAIN t /\ K \in SUBSET DOMAIN c
  /\ \A k \in DOMAIN s : k \in K <=> k \in I
  /\ \A k \in DOMAIN t : Len(s) + k \in K <=> k \in J

(* The first of both is the first of s, or else of t. *)
LeastIsLeast(s, t, c, I, J, K) ==
  /\ I = {} /\ J = {} => K = {}
  /\ I # {} => K # {} /\ c[Least(K)] = s[Least(I)]
  /\ I = {} /\ J # {} => K # {} /\ c[Least(K)] = t[Least(J)]

LEMMA LeastInARow ==
  ASSUME NEW s, NEW t, NEW c, IsSeq(s), IsSeq(t), InARow(s, t, c),
         NEW I, NEW J, NEW K, Places(s, t, c, I, J, K)
  PROVE  LeastIsLeast(s, t, c, I, J, K)
<1> DEFINE n == Len(s)
<1>1. /\ IsSeq(c) /\ n \in Nat /\ DOMAIN s = 1..n /\ DOMAIN t \in SUBSET (Nat \ {0})
      /\ \A k \in DOMAIN s : c[k] = s[k]
      /\ \A k \in DOMAIN t : c[n + k] = t[k]
      /\ \A k \in DOMAIN c : k \in DOMAIN s \/ \E l \in DOMAIN t : k = n + l
  BY DEF InARow
<1>2. /\ I \in SUBSET DOMAIN s /\ J \in SUBSET DOMAIN t /\ K \in SUBSET DOMAIN c
      /\ \A k \in DOMAIN s : k \in K <=> k \in I
      /\ \A k \in DOMAIN t : n + k \in K <=> k \in J
  BY DEF Places
<1> HIDE DEF n
<1>3. \A k \in K : k \in Nat /\ (k \in I \/ \E l \in J : k = n + l)
  BY <1>1, <1>2
<1>4. I = {} /\ J = {} => K = {}
  BY <1>3
<1>5. ASSUME I # {} PROVE K # {} /\ c[Least(K)] = s[Least(I)]
  <2> DEFINE i == Least(I)
  <2>1. i \in I /\ \A j \in I : i <= j
    BY <1>2, <1>5, LeastPicked
  <2> HIDE DEF i
  <2>2. i \in K /\ i \in DOMAIN s /\ i <= n /\ i \in Nat
    BY <1>1, <1>2, <2>1
  <2>3. ASSUME NEW k \in K PROVE i <= k
    <3>1. CASE k \in I
      BY <2>1, <3>1
    <3>2. CASE \E l \in J : k = n + l
      BY <1>1, <1>2, <2>2, <3>2
    <3> QED
      BY <1>3, <3>1, <3>2
  <2>4. Least(K) \in K /\ \A k \in K : Least(K) <= k
    BY <1>1, <1>2, <2>2, LeastPicked
  <2>5. Least(K) = i
    BY <1>3, <2>2, <2>3, <2>4
  <2> QED
    BY <1>1, <2>2, <2>5 DEF i
<1>6. ASSUME I = {}, J # {} PROVE K # {} /\ c[Least(K)] = t[Least(J)]
  <2> DEFINE j == Least(J)
  <2>1. j \in J /\ \A l \in J : j <= l
    BY <1>2, <1>6, LeastPicked
  <2> HIDE DEF j
  <2>2. n + j \in K /\ j \in DOMAIN t /\ j \in Nat /\ n + j \in Nat
    BY <1>1, <1>2, <2>1
  <2>3. ASSUME NEW k \in K PROVE n + j <= k
    <3>1. PICK l \in J : k = n + l
      BY <1>3, <1>6
    <3>2. j <= l /\ l \in Nat
      BY <1>1, <1>2, <2>1
    <3> QED
      BY <1>1, <2>2, <3>1, <3>2
  <2>4. Least(K) \in K /\ \A k \in K : Least(K) <= k
    BY <1>1, <1>2, <2>2, LeastPicked
  <2>5. Least(K) = n + j
    BY <1>3, <2>2, <2>3, <2>4
  <2> QED
    BY <1>1, <2>2, <2>5 DEF j
<1> QED
  BY <1>4, <1>5, <1>6 DEF LeastIsLeast

Elements(v) == IF IsArray(v) THEN v.arr ELSE << >>

LEMMA ElementsShape ==
  ASSUME NEW v, AllValues(v)
  PROVE  /\ IsSeq(Elements(v))
         /\ Urls(v) = {i \in DOMAIN Elements(v) : IsUrl(Elements(v)[i])}
         /\ Scripts(v) = {i \in DOMAIN Elements(v) : IsJs(Elements(v)[i])}
         /\ \A places \in SUBSET DOMAIN Elements(v) :
              First(v, places) = IF places = {} THEN Empty ELSE Elements(v)[Least(places)].str
         /\ \A i \in Urls(v) : LET t == Elements(v)[i].str IN t \in Text /\ IsAbsoluteUrl(t)
         /\ \A i \in Scripts(v) : LET t == Elements(v)[i].str IN t # Empty /\ ~IsAbsoluteUrl(t)
<1>1. CASE IsArray(v)
  <2>1. Elements(v) = v.arr /\ IsSeq(v.arr) /\ \A i \in DOMAIN v.arr : IsValue(v.arr[i])
    BY <1>1 DEF Elements, AllValues, IsValue
  <2>2. \A i \in DOMAIN v.arr : IsUrl(v.arr[i]) => v.arr[i].str \in Text /\ IsAbsoluteUrl(v.arr[i].str)
    BY <2>1 DEF IsUrl, IsValue
  <2> QED
    BY <1>1, <2>1, <2>2 DEF Urls, Scripts, IsJs, First, Least
<1>2. CASE ~IsArray(v)
  <2>1. Elements(v) = << >> /\ Urls(v) = {} /\ Scripts(v) = {}
    BY <1>2 DEF Elements, Urls, Scripts
  <2>2. IsSeq(<< >>) /\ DOMAIN << >> = {}
    BY EmptySeqShape
  <2>3. \A places \in SUBSET DOMAIN Elements(v) : places = {}
    BY <2>1, <2>2
  <2> QED
    BY <2>1, <2>2, <2>3 DEF First
<1> QED
  BY <1>1, <1>2

LEMMA Normalised ==
  /\ NormaliseUrl(Empty) = Empty /\ ~IsAbsoluteUrl(Empty)
  /\ \A t \in Text : IsAbsoluteUrl(t) => NormaliseUrl(t) # Empty
<1>1. NormaliseUrl(Empty) = Empty /\ ~IsAbsoluteUrl(Empty)
  BY DEF NormaliseUrl, Empty, IsAbsoluteUrl
<1>2. ASSUME NEW t \in Text, IsAbsoluteUrl(t) PROVE NormaliseUrl(t) # Empty
  <2>1. t.slashes = TRUE /\ Empty.slashes = FALSE
    BY <1>2 DEF IsAbsoluteUrl, Empty, Text
  <2>2. [t EXCEPT !.scheme = "http"].slashes = t.slashes
    BY DEF Text
  <2> QED
    BY <2>1, <2>2 DEF NormaliseUrl
<1> QED
  BY <1>1, <1>2

(* The candidates from the safe scripts e and the trusted URLs r. *)
Choices(e, r) ==
  LET urlsFirst == Elements(r) \o Elements(e)
      scriptsFirst == Elements(e) \o Elements(r)
  IN Picked(urlsFirst, {i \in DOMAIN urlsFirst : IsUrl(urlsFirst[i])})
     \o Picked(scriptsFirst, {i \in DOMAIN scriptsFirst : IsJs(scriptsFirst[i])})

UrlPlaces(s) == {i \in DOMAIN s : IsUrl(s[i])}

ScriptPlaces(s) == {i \in DOMAIN s : IsJs(s[i])}

LEMMA UrlsInARow ==
  ASSUME NEW s, NEW t, NEW c, IsSeq(s), IsSeq(t), c = s \o t
  PROVE  LeastIsLeast(s, t, c, UrlPlaces(s), UrlPlaces(t), UrlPlaces(c))
<1> DEFINE I == UrlPlaces(s)
           J == UrlPlaces(t)
           K == UrlPlaces(c)
<1>1. InARow(s, t, c)
  BY ConcatInARow
<1>2. Places(s, t, c, I, J, K)
  BY <1>1 DEF InARow, Places, UrlPlaces
<1> HIDE DEF I, J, K
<1>3. LeastIsLeast(s, t, c, I, J, K)
  BY <1>1, <1>2, LeastInARow
<1> QED
  BY <1>3 DEF I, J, K

LEMMA ScriptsInARow ==
  ASSUME NEW s, NEW t, NEW c, IsSeq(s), IsSeq(t), c = s \o t
  PROVE  LeastIsLeast(s, t, c, ScriptPlaces(s), ScriptPlaces(t), ScriptPlaces(c))
<1> DEFINE I == ScriptPlaces(s)
           J == ScriptPlaces(t)
           K == ScriptPlaces(c)
<1>1. InARow(s, t, c)
  BY ConcatInARow
<1>2. Places(s, t, c, I, J, K)
  BY <1>1 DEF InARow, Places, ScriptPlaces
<1> HIDE DEF I, J, K
<1>3. LeastIsLeast(s, t, c, I, J, K)
  BY <1>1, <1>2, LeastInARow
<1> QED
  BY <1>3 DEF I, J, K

LEMMA FirstChoice ==
  ASSUME NEW e, NEW r, AllValues(e), AllValues(r)
  PROVE  LET first == Choices(e, r)[1].str
         IN /\ Urls(r) # {} => first = First(r, Urls(r))
            /\ Urls(r) = {} /\ Urls(e) # {} => first = First(e, Urls(e))
            /\ Urls(r) = {} /\ Urls(e) = {} /\ Scripts(e) # {} => first = First(e, Scripts(e))
            /\ Urls(r) = {} /\ Urls(e) = {} /\ Scripts(e) = {} /\ Scripts(r) # {} =>
                 first = First(r, Scripts(r))
<1> DEFINE a == Elements(e)
           b == Elements(r)
           ba == b \o a
           ab == a \o b
           U == UrlPlaces(ba)
           J == ScriptPlaces(ab)
           one == Picked(ba, U)
           two == Picked(ab, J)
<1>1. /\ IsSeq(a) /\ Urls(e) = UrlPlaces(a) /\ Scripts(e) = ScriptPlaces(a)
      /\ IsSeq(b) /\ Urls(r) = UrlPlaces(b) /\ Scripts(r) = ScriptPlaces(b)
  BY ElementsShape DEF UrlPlaces, ScriptPlaces
<1>2. /\ \A places \in SUBSET DOMAIN a :
           First(e, places) = IF places = {} THEN Empty ELSE a[Least(places)].str
      /\ \A places \in SUBSET DOMAIN b :
           First(r, places) = IF places = {} THEN Empty ELSE b[Least(places)].str
  BY ElementsShape
<1>3. Choices(e, r) = one \o two
  BY DEF Choices, UrlPlaces, ScriptPlaces
<1> HIDE DEF a, b
<1>4. /\ Urls(e) # {} => First(e, Urls(e)) = a[Least(Urls(e))].str
      /\ Scripts(e) # {} => First(e, Scripts(e)) = a[Least(Scripts(e))].str
      /\ Urls(r) # {} => First(r, Urls(r)) = b[Least(Urls(r))].str
      /\ Scripts(r) # {} => First(r, Scripts(r)) = b[Least(Scripts(r))].str
  <2>1. /\ Urls(e) \in SUBSET DOMAIN a /\ Scripts(e) \in SUBSET DOMAIN a
        /\ Urls(r) \in SUBSET DOMAIN b /\ Scripts(r) \in SUBSET DOMAIN b
    BY <1>1 DEF UrlPlaces, ScriptPlaces
  <2> QED
    BY <1>2, <2>1
<1>5. LeastIsLeast(b, a, ba, Urls(r), Urls(e), U) /\ LeastIsLeast(a, b, ab, Scripts(e), Scripts(r), J)
  <2>1. LeastIsLeast(b, a, ba, UrlPlaces(b), UrlPlaces(a), U)
    BY <1>1, UrlsInARow
  <2>2. LeastIsLeast(a, b, ab, ScriptPlaces(a), ScriptPlaces(b), J)
    BY <1>1, ScriptsInARow
  <2> QED
    BY <1>1, <2>1, <2>2
<1>6. IsSeq(ab) /\ IsSeq(ba)
  <2>1. InARow(b, a, ba) /\ InARow(a, b, ab)
    BY <1>1, ConcatInARow
  <2> QED
    BY <2>1 DEF InARow
<1> HIDE DEF ab, ba
<1>7. /\ U # {} => IsSeq(one) /\ 1 \in DOMAIN one /\ one[1] = ba[Least(U)]
      /\ J # {} => IsSeq(two) /\ 1 \in DOMAIN two /\ two[1] = ab[Least(J)]
  <2>1. U \in SUBSET DOMAIN ba /\ J \in SUBSET DOMAIN ab
    BY DEF UrlPlaces, ScriptPlaces
  <2> HIDE DEF U, J
  <2> QED
    BY <1>6, <2>1, LeastPicked
<1>8. /\ U = {} => one = << >> /\ IsSeq(one)
      /\ J = {} => two = << >> /\ IsSeq(two)
  BY NothingPicked, EmptySeqShape
<1> HIDE DEF U, J, one, two
<1>9. U # {} => (one \o two)[1] = ba[Least(U)]
  <2> DEFINE both == one \o two
  <2>1. InARow(one, two, both)
    BY <1>7, <1>8, ConcatInARow
  <2> HIDE DEF both
  <2>2. U # {} => both[1] = one[1]
    BY <1>7, <2>1 DEF InARow
  <2> QED
    BY <1>7, <2>2 DEF both
<1>10. U = {} /\ J # {} => (one \o two)[1] = ab[Least(J)]
  <2> SUFFICES ASSUME U = {}, J # {} PROVE (one \o two)[1] = ab[Least(J)]
    OBVIOUS
  <2>1. one = << >> /\ IsSeq(two)
    BY <1>7, <1>8
  <2>2. one \o two = two
    BY <2>1, ConcatEmptySeq DEF IsSeq
  <2> QED
    BY <1>7, <2>2
<1> DEFINE first == Choices(e, r)[1]
<1>11. /\ U # {} => first = ba[Least(U)]
       /\ U = {} /\ J # {} => first = ab[Least(J)]
  BY <1>3, <1>9, <1>10
<1> HIDE DEF first
<1>12. /\ Urls(r) # {} => first = b[Least(Urls(r))]
       /\ Urls(r) = {} /\ Urls(e) # {} => first = a[Least(Urls(e))]
       /\ Urls(r) = {} /\ Urls(e) = {} /\ Scripts(e) # {} => first = a[Least(Scripts(e))]
       /\ Urls(r) = {} /\ Urls(e) = {} /\ Scripts(e) = {} /\ Scripts(r) # {} =>
            first = b[Least(Scripts(r))]
  BY <1>5, <1>11 DEF LeastIsLeast
<1> QED
  BY <1>4, <1>12 DEF first

(* What Interpreter takes, if it takes anything, is the first candidate. *)
LEMMA InterpreterIsFirst ==
  ASSUME NEW e, NEW r, AllValues(e), AllValues(r)
  PROVE  LET from == Interpreter(e, r)
             first == Choices(e, r)[1].str
         IN from.url # Empty \/ from.js # Empty =>
              IF IsAbsoluteUrl(first) THEN from.url = NormaliseUrl(first) /\ from.js = Empty
              ELSE from.js = first /\ from.url = Empty
<1> DEFINE from == Interpreter(e, r)
           first == Choices(e, r)[1].str
<1>1. /\ Urls(r) # {} => first = First(r, Urls(r))
      /\ Urls(r) = {} /\ Urls(e) # {} => first = First(e, Urls(e))
      /\ Urls(r) = {} /\ Urls(e) = {} /\ Scripts(e) # {} => first = First(e, Scripts(e))
      /\ Urls(r) = {} /\ Urls(e) = {} /\ Scripts(e) = {} /\ Scripts(r) # {} => first = First(r, Scripts(r))
  BY FirstChoice
<1> HIDE DEF first
<1>2. ASSUME NEW v, AllValues(v)
      PROVE  /\ Urls(v) = {} => First(v, Urls(v)) = Empty /\ PickUrl(v) = Empty
             /\ Urls(v) # {} => /\ IsAbsoluteUrl(First(v, Urls(v))) /\ PickUrl(v) # Empty
                                /\ PickUrl(v) = NormaliseUrl(First(v, Urls(v)))
             /\ Scripts(v) = {} => PickJs(v) = Empty
             /\ Scripts(v) # {} => /\ ~IsAbsoluteUrl(First(v, Scripts(v))) /\ PickJs(v) # Empty
                                   /\ PickJs(v) = First(v, Scripts(v))
  <2> DEFINE s == Elements(v)
  <2>1. /\ IsSeq(s)
        /\ Urls(v) = {i \in DOMAIN s : IsUrl(s[i])}
        /\ Scripts(v) = {i \in DOMAIN s : IsJs(s[i])}
        /\ \A places \in SUBSET DOMAIN s :
             First(v, places) = IF places = {} THEN Empty ELSE s[Least(places)].str
        /\ \A i \in Urls(v) : LET t == s[i].str IN t \in Text /\ IsAbsoluteUrl(t)
        /\ \A i \in Scripts(v) : LET t == s[i].str IN t # Empty /\ ~IsAbsoluteUrl(t)
    BY <1>2, ElementsShape
  <2> HIDE DEF s
  <2>2. Urls(v) \in SUBSET DOMAIN s /\ Scripts(v) \in SUBSET DOMAIN s
    BY <2>1
  <2>3. /\ Urls(v) # {} => Least(Urls(v)) \in Urls(v)
        /\ Scripts(v) # {} => Least(Scripts(v)) \in Scripts(v)
    BY <2>1, <2>2, LeastPicked
  <2>4. ASSUME Urls(v) # {}
        PROVE  /\ IsAbsoluteUrl(First(v, Urls(v))) /\ PickUrl(v) # Empty
               /\ PickUrl(v) = NormaliseUrl(First(v, Urls(v)))
    <3>1. First(v, Urls(v)) \in Text /\ IsAbsoluteUrl(First(v, Urls(v)))
      BY <2>1, <2>2, <2>3, <2>4
    <3> QED
      BY <3>1, Normalised DEF PickUrl
  <2>5. ASSUME Urls(v) = {} PROVE First(v, Urls(v)) = Empty /\ PickUrl(v) = Empty
    BY <2>5, Normalised DEF PickUrl, First
  <2>6. ASSUME Scripts(v) # {}
        PROVE  /\ ~IsAbsoluteUrl(First(v, Scripts(v))) /\ PickJs(v) # Empty
               /\ PickJs(v) = First(v, Scripts(v))
    BY <2>1, <2>2, <2>3, <2>6 DEF PickJs
  <2>7. ASSUME Scripts(v) = {} PROVE PickJs(v) = Empty
    BY <2>7 DEF PickJs, First
  <2> QED
    BY <2>4, <2>5, <2>6, <2>7
<1>3. /\ from.url = IF PickUrl(r) # Empty THEN PickUrl(r) ELSE PickUrl(e)
      /\ from.js = IF from.url # Empty THEN Empty
                   ELSE IF PickJs(e) # Empty THEN PickJs(e) ELSE PickJs(r)
  BY DEF Interpreter
<1> HIDE DEF from
<1>4. CASE Urls(r) # {}
  BY <1>1, <1>2, <1>3, <1>4 DEF first, from
<1>5. CASE Urls(r) = {} /\ Urls(e) # {}
  BY <1>1, <1>2, <1>3, <1>5 DEF first, from
<1>6. CASE Urls(r) = {} /\ Urls(e) = {} /\ Scripts(e) # {}
  BY <1>1, <1>2, <1>3, <1>6 DEF first, from
<1>7. CASE Urls(r) = {} /\ Urls(e) = {} /\ Scripts(e) = {} /\ Scripts(r) # {}
  BY <1>1, <1>2, <1>3, <1>7 DEF first, from
<1>8. CASE Urls(r) = {} /\ Urls(e) = {} /\ Scripts(e) = {} /\ Scripts(r) = {}
  BY <1>2, <1>3, <1>8 DEF from
<1> QED
  BY <1>4, <1>5, <1>6, <1>7, <1>8

(* Of an answer of Create of any size: a challenge is accepted only with the
   interpreter that the documented order puts first. *)
THEOREM FirstInterpreter == Spec => []InterpreterChosen
<1> DEFINE Asked == call \in Calls
<1>1. Init => Asked /\ InterpreterChosen
  BY DEF Init, InterpreterChosen
<1>2. Asked /\ InterpreterChosen /\ [Next]_vars => Asked' /\ InterpreterChosen'
  <2> SUFFICES ASSUME Asked, InterpreterChosen, [Next]_vars
               PROVE  Asked' /\ InterpreterChosen'
    OBVIOUS
  <2>1. CASE UNCHANGED vars
    BY <2>1 DEF vars, InterpreterChosen
  <2>2. CASE Next
    <3>1. call' = call /\ Asked'
      BY <2>2 DEF Next
    <3> DEFINE inner == InnerArray(call.body.arr)
               first == Candidates(inner.arr)[1].str
    <3>2. InterpreterChosen' <=>
            (call.op = "create" /\ answer' \notin {None, Error} =>
               IF IsAbsoluteUrl(first)
               THEN answer'.interpreter_url = NormaliseUrl(first) /\ answer'.interpreter_js = Empty
               ELSE answer'.interpreter_js = first /\ answer'.interpreter_url = Empty)
      BY <3>1 DEF InterpreterChosen
    <3> SUFFICES ASSUME call.op = "create", answer' # Error
                 PROVE  IF IsAbsoluteUrl(first)
                        THEN answer'.interpreter_url = NormaliseUrl(first) /\ answer'.interpreter_js = Empty
                        ELSE answer'.interpreter_js = first /\ answer'.interpreter_url = Empty
      BY <3>1, <3>2
    <3>3. answer' = ParseChallengeResponse(call.body)
      BY <2>2 DEF Next, AnswerAtOnce, DecodeText, DescrambleText, MakePlaceholder, ParseCreate, ParseBoth, ReadVisitor
    <3> DEFINE e == inner.arr[2]
               r == inner.arr[3]
               from == Interpreter(e, r)
    <3>4. /\ IsArray(call.body) /\ call.body.arr # << >>
          /\ IsArray(inner) /\ ~(Len(inner.arr) < 6)
          /\ from.url # Empty \/ from.js # Empty
          /\ answer'.interpreter_url = from.url /\ answer'.interpreter_js = from.js
      BY <3>3 DEF ParseChallengeResponse
    <3>5. AllValues(e) /\ AllValues(r)
      <4>1. IsBody(call.body)
        BY CallsAssumption
      <4> HIDE DEF inner
      <4>2. AllValues(inner) /\ \A i \in DOMAIN inner.arr : AllValues(inner.arr[i])
        BY <3>4, <4>1 DEF IsBody, inner
      <4>3. IsSeq(inner.arr)
        BY <3>4, <4>2 DEF AllValues, IsValue
      <4>4. 2 \in DOMAIN inner.arr /\ 3 \in DOMAIN inner.arr
        BY <3>4, <4>3, SeqShape
      <4> QED
        BY <4>2, <4>4
    <3>6. Candidates(inner.arr) = Choices(e, r)
      BY DEF Candidates, Choices, Elements
    <3> HIDE DEF e, r, from, inner
    <3>7. LET chosen == Choices(e, r)[1].str
          IN IF IsAbsoluteUrl(chosen) THEN from.url = NormaliseUrl(chosen) /\ from.js = Empty
             ELSE from.js = chosen /\ from.url = Empty
      BY <3>4, <3>5, InterpreterIsFirst DEF from
    <3> QED
      BY <3>4, <3>6, <3>7
  <2> QED
    BY <2>1, <2>2
<1> QED
  BY <1>1, <1>2, PTL DEF Spec

-----------------------------------------------------------------------------
(* The two endpoints.                                                       *)

LEMMA UrlField ==
  ASSUME NEW u \in Text
  PROVE  /\ ExtractUrlField([str |-> u]) = u
         /\ ExtractUrlField([obj |-> [privateDoNotAccess |-> [str |-> u]]]) = u
<1>1. ExtractUrlField([str |-> u]) = u
  BY DEF ExtractUrlField, IsString
<1>2. ExtractUrlField([obj |-> [privateDoNotAccess |-> [str |-> u]]]) = u
  <2> DEFINE o == [privateDoNotAccess |-> [str |-> u]]
             v == [obj |-> o]
             full == {k \in DOMAIN o : IsString(o[k]) /\ o[k].str # Empty}
  <2>1. ~IsString(v) /\ IsObject(v) /\ v.obj = o
    BY DEF IsString, IsObject
  <2>2. DOMAIN o = {"privateDoNotAccess"} /\ o["privateDoNotAccess"] = [str |-> u]
    OBVIOUS
  <2>3. IsString([str |-> u]) /\ [str |-> u].str = u
    BY DEF IsString
  <2>4. full = IF u # Empty THEN {"privateDoNotAccess"} ELSE {}
    BY <2>2, <2>3
  <2>5. ExtractUrlField(v) = IF full = {} THEN Empty ELSE o[CHOOSE k \in full : TRUE].str
    BY <2>1 DEF ExtractUrlField
  <2> HIDE DEF full, o
  <2>6. full # {} => (CHOOSE k \in full : TRUE) \in full
    OBVIOUS
  <2>7. CASE u = Empty
    BY <2>4, <2>5, <2>7 DEF o
  <2>8. CASE u # Empty
    <3>1. full = {"privateDoNotAccess"}
      BY <2>4, <2>8
    <3>2. (CHOOSE k \in full : TRUE) = "privateDoNotAccess" /\ full # {}
      BY <2>6, <3>1
    <3> QED
      BY <2>2, <2>3, <2>5, <3>2 DEF o
  <2> QED
    BY <2>7, <2>8
<1> QED
  BY <1>1, <1>2

(* What /att/get's challenge is parsed into, spelled either way. *)
LEMMA AttFields ==
  ASSUME NEW c, c.url \in Text, c.program \in Text, c.global_name \in Text,
         c.snake \in BOOLEAN, c.trusted \in BOOLEAN
  PROVE  ParseAttResponse(AttBody(c)) =
           IF ~IsAbsoluteUrl(NormaliseUrl(c.url)) \/ c.program = Empty \/ c.global_name = Empty
           THEN Error
           ELSE [interpreter_url |-> NormaliseUrl(c.url), interpreter_js |-> Empty,
                 program |-> c.program, global_name |-> c.global_name]
<1> DEFINE url == IF c.trusted THEN [obj |-> [privateDoNotAccess |-> [str |-> c.url]]]
                  ELSE [str |-> c.url]
           program == [str |-> c.program]
           global_name == [str |-> c.global_name]
           snake == [interpreter_url |-> url, program |-> program, global_name |-> global_name]
           camel == [interpreterUrl |-> url, program |-> program, globalName |-> global_name]
           o == IF c.snake THEN snake ELSE camel
           body == IF c.snake THEN [bg_challenge |-> [obj |-> snake]] ELSE [bgChallenge |-> [obj |-> camel]]
<1>1. AttBody(c) = [obj |-> body]
  BY DEF AttBody
<1>2. ExtractUrlField(url) = c.url
  BY UrlField
<1>3. IsString(program) /\ program.str = c.program /\ IsString(global_name) /\ global_name.str = c.global_name
  BY DEF IsString
<1> HIDE DEF url, program, global_name
<1>4. AttUrl(o) = NormaliseUrl(c.url)
  <2>1. Lookup(o, DOMAIN o, "interpreterUrl", "interpreter_url") = url
    BY DEF Lookup
  <2> QED
    BY <1>2, <2>1 DEF AttUrl
<1>5. GetStr(o, "program", "program") = c.program
  <2>1. "program" \in DOMAIN o /\ o["program"] = program
    OBVIOUS
  <2> HIDE DEF o
  <2> QED
    BY <1>3, <2>1 DEF GetStr, Lookup
<1>6. GetStr(o, "globalName", "global_name") = c.global_name
  <2>1. /\ c.snake => /\ "globalName" \notin DOMAIN o /\ "global_name" \in DOMAIN o
                      /\ o["global_name"] = global_name
        /\ ~c.snake => "globalName" \in DOMAIN o /\ o["globalName"] = global_name
    OBVIOUS
  <2> HIDE DEF o
  <2> QED
    BY <1>3, <2>1 DEF GetStr, Lookup
<1>7. Lookup(body, {k \in DOMAIN body : IsObject(body[k])}, "bgChallenge", "bg_challenge") = [obj |-> o]
  <2> HIDE DEF snake, camel
  <2>1. /\ c.snake => /\ "bgChallenge" \notin DOMAIN body /\ "bg_challenge" \in DOMAIN body
                      /\ body["bg_challenge"] = [obj |-> o]
        /\ ~c.snake => "bgChallenge" \in DOMAIN body /\ body["bgChallenge"] = [obj |-> o]
    OBVIOUS
  <2>2. IsObject([obj |-> o])
    BY DEF IsObject
  <2> HIDE DEF body, o
  <2> QED
    BY <2>1, <2>2 DEF Lookup
<1> HIDE DEF o, body
<1>8. /\ IsObject([obj |-> body]) /\ [obj |-> body].obj = body
      /\ IsObject([obj |-> o]) /\ [obj |-> o].obj = o
  BY DEF IsObject
<1> QED
  BY <1>1, <1>4, <1>5, <1>6, <1>7, <1>8 DEF ParseAttResponse

(* What Create's challenge is parsed into. *)
LEMMA CreateFields ==
  ASSUME NEW c, c.url \in Text, c.program \in Text, c.global_name \in Text
  PROVE  ParseChallengeResponse(CreateBody(c)) =
           IF c.url = Empty THEN Error
           ELSE [interpreter_url |-> IF IsAbsoluteUrl(c.url) THEN NormaliseUrl(c.url) ELSE Empty,
                 interpreter_js |-> IF IsAbsoluteUrl(c.url) THEN Empty ELSE c.url,
                 program |-> c.program, global_name |-> c.global_name]
<1> DEFINE r == [arr |-> <<[str |-> c.url]>>]
           program == [str |-> c.program]
           global_name == [str |-> c.global_name]
           inner == [arr |-> <<Null, Null, r, Null, program, global_name>>]
           body == [arr |-> <<inner>>]
           from == Interpreter(Null, r)
<1>1. CreateBody(c) = body
  BY DEF CreateBody
<1>2. /\ IsArray(r) /\ DOMAIN r.arr = {1} /\ IsString(r.arr[1]) /\ r.arr[1].str = c.url
      /\ ~IsArray(Null)
  BY DEF IsArray, IsString, Null
<1>3. /\ Urls(r) = IF IsAbsoluteUrl(c.url) THEN {1} ELSE {}
      /\ Scripts(r) = IF c.url # Empty /\ ~IsAbsoluteUrl(c.url) THEN {1} ELSE {}
      /\ Urls(Null) = {} /\ Scripts(Null) = {}
  BY <1>2 DEF Urls, Scripts, IsUrl, IsJs
<1>4. First(r, {1}) = c.url /\ \A v : First(v, {}) = Empty
  <2>1. (CHOOSE i \in {1} : \A j \in {1} : i <= j) = 1
    OBVIOUS
  <2>2. First(r, {1}) = r.arr[1].str
    BY <2>1 DEF First
  <2> QED
    BY <1>2, <2>2 DEF First
<1>5. /\ PickUrl(r) = IF IsAbsoluteUrl(c.url) THEN NormaliseUrl(c.url) ELSE Empty
      /\ PickJs(r) = IF IsAbsoluteUrl(c.url) THEN Empty ELSE c.url
      /\ PickUrl(Null) = Empty /\ PickJs(Null) = Empty
  BY <1>3, <1>4, Normalised DEF PickUrl, PickJs
<1>6. /\ from.url = IF IsAbsoluteUrl(c.url) THEN NormaliseUrl(c.url) ELSE Empty
      /\ from.js = IF IsAbsoluteUrl(c.url) THEN Empty ELSE c.url
  BY <1>5, Normalised DEF Interpreter
<1>7. from.url = Empty /\ from.js = Empty <=> c.url = Empty
  BY <1>6, Normalised
<1> HIDE DEF from
<1>8. /\ IsArray(body) /\ body.arr # << >> /\ InnerArray(body.arr) = inner
      /\ IsArray(inner) /\ Len(inner.arr) = 6
      /\ inner.arr[2] = Null /\ inner.arr[3] = r /\ inner.arr[5] = program /\ inner.arr[6] = global_name
  BY DEF IsArray, InnerArray
<1>9. IsString(program) /\ program.str = c.program /\ IsString(global_name) /\ global_name.str = c.global_name
  BY DEF IsString
<1> HIDE DEF body, inner, r, program, global_name
<1> QED
  BY <1>1, <1>6, <1>7, <1>8, <1>9 DEF ParseChallengeResponse, from

(* Of every challenge with a URL, a program and a global name: what /att/get
   delivers is what Create does, and only what lacks one of them, or has no
   absolute URL, is refused by the first alone. *)
THEOREM SameChallenge == Spec => []EndpointsAgree
<1> DEFINE Asked == call \in Calls
<1>1. Init => Asked /\ EndpointsAgree
  BY DEF Init, EndpointsAgree
<1>2. Asked /\ EndpointsAgree /\ [Next]_vars => Asked' /\ EndpointsAgree'
  <2> SUFFICES ASSUME Asked, EndpointsAgree, [Next]_vars
               PROVE  Asked' /\ EndpointsAgree'
    OBVIOUS
  <2>1. CASE UNCHANGED vars
    BY <2>1 DEF vars, EndpointsAgree
  <2>2. CASE Next
    <3>1. call' = call /\ Asked'
      BY <2>2 DEF Next
    <3> DEFINE att == ParseAttResponse(AttBody(call))
               create == ParseChallengeResponse(CreateBody(call))
    <3>2. EndpointsAgree' <=>
            (call.op = "both" /\ answer' # None =>
               /\ answer'.att # Error /\ IsAbsoluteUrl(call.url) => answer'.att = answer'.create
               /\ answer'.att = Error /\ answer'.create # Error =>
                    Empty \in {call.program, call.global_name} \/ answer'.create.interpreter_url = Empty)
      BY <3>1 DEF EndpointsAgree
    <3> SUFFICES ASSUME call.op = "both"
                 PROVE  /\ answer'.att # Error /\ IsAbsoluteUrl(call.url) => answer'.att = answer'.create
                        /\ answer'.att = Error /\ answer'.create # Error =>
                             Empty \in {call.program, call.global_name} \/ answer'.create.interpreter_url = Empty
      BY <3>1, <3>2
    <3>3. answer' = [att |-> att, create |-> create]
      BY <2>2 DEF Next, AnswerAtOnce, DecodeText, DescrambleText, MakePlaceholder, ParseCreate, ParseBoth, ReadVisitor
    <3>4. /\ call.url \in Text /\ call.program \in Text /\ call.global_name \in Text
          /\ call.snake \in BOOLEAN /\ call.trusted \in BOOLEAN
      BY CallsAssumption
    <3> HIDE DEF att, create
    <3>5. answer'.att = att /\ answer'.create = create
      BY <3>3
    <3> DEFINE url == NormaliseUrl(call.url)
               full == [interpreter_url |-> url, interpreter_js |-> Empty,
                        program |-> call.program, global_name |-> call.global_name]
    <3>6. att = IF ~IsAbsoluteUrl(url) \/ call.program = Empty \/ call.global_name = Empty THEN Error
                ELSE full
      BY <3>4, AttFields DEF att
    <3>7. create = IF call.url = Empty THEN Error
                   ELSE [interpreter_url |-> IF IsAbsoluteUrl(call.url) THEN url ELSE Empty,
                         interpreter_js |-> IF IsAbsoluteUrl(call.url) THEN Empty ELSE call.url,
                         program |-> call.program, global_name |-> call.global_name]
      BY <3>4, CreateFields DEF create
    <3>8. IsAbsoluteUrl(call.url) => call.url # Empty /\ IsAbsoluteUrl(url)
      <4>1. IsAbsoluteUrl(call.url) => IsAbsoluteUrl(url)
        BY <3>4 DEF IsAbsoluteUrl, NormaliseUrl, Text
      <4> QED
        BY <4>1, Normalised
    <3>9. full # Error
      BY DEF Error
    <3> HIDE DEF url
    <3>10. CASE IsAbsoluteUrl(call.url)
      BY <3>5, <3>6, <3>7, <3>8, <3>9, <3>10
    <3>11. CASE ~IsAbsoluteUrl(call.url)
      BY <3>5, <3>7, <3>11
    <3> QED
      BY <3>10, <3>11
  <2> QED
    BY <2>1, <2>2
<1> QED
  BY <1>1, <1>2, PTL DEF Spec

-----------------------------------------------------------------------------
(* The numbers of visitor_data.                                            *)

(* What is left of a number before each byte. *)
LEMMA ShiftedValues ==
  ASSUME NEW val \in Nat
  PROVE  /\ Shifted(val)[1] = val
         /\ \A i \in 2..10 : Shifted(val)[i] = Shifted(val)[i-1] \div 128
<1> DEFINE Halves(f) == f = [i \in 1..10 |-> IF i = 1 THEN val ELSE f[i-1] \div 128]
           a2 == val \div 128
           a3 == a2 \div 128
           a4 == a3 \div 128
           a5 == a4 \div 128
           a6 == a5 \div 128
           a7 == a6 \div 128
           a8 == a7 \div 128
           a9 == a8 \div 128
           a10 == a9 \div 128
           f == <<val, a2, a3, a4, a5, a6, a7, a8, a9, a10>>
<1>1. ASSUME NEW i \in 1..10 PROVE f[i] = IF i = 1 THEN val ELSE f[i-1] \div 128
  <2> HIDE DEF a2, a3, a4, a5, a6, a7, a8, a9, a10
  <2>1. f[1] = val /\ f[2] = a2 /\ f[3] = a3 /\ f[4] = a4 /\ f[5] = a5 /\ f[6] = a6 /\ f[7] = a7
        /\ f[8] = a8 /\ f[9] = a9 /\ f[10] = a10
    OBVIOUS
  <2> HIDE DEF f
  <2>2. i \in {1, 2, 3, 4, 5, 6, 7, 8, 9, 10}
    OBVIOUS
  <2> QED
    BY <2>1, <2>2 DEF a2, a3, a4, a5, a6, a7, a8, a9, a10
<1>2. f = [i \in 1..10 |-> f[i]]
  OBVIOUS
<1> HIDE DEF f
<1>3. Halves(f)
  BY <1>1, <1>2
<1>4. Shifted(val) = CHOOSE g : Halves(g)
  BY DEF Shifted
<1>5. Halves(Shifted(val))
  BY <1>3, <1>4
<1> QED
  BY <1>5

(* The bytes of a number: all but the last are marked. *)
LEMMA VarintShape ==
  ASSUME NEW val, Uint64(val)
  PROVE  LET size == VarintSize(val)
             text == WriteVarint(val)
         IN /\ size \in 1..10 /\ text \in Seq(Bytes) /\ Len(text) = size
            /\ Shifted(val)[1] = val /\ \A i \in 1..size : Shifted(val)[i] \in Nat
            /\ text[size] = Shifted(val)[size] /\ text[size] < 128
            /\ \A i \in 1..(size - 1) : /\ text[i] = (Shifted(val)[i] % 128) + 128 /\ text[i] >= 128
                                        /\ Shifted(val)[i+1] = Shifted(val)[i] \div 128
<1> DEFINE rest == Shifted(val)
           size == VarintSize(val)
           text == WriteVarint(val)
           IsSize(n) == (n = 10 \/ rest[n] < 128) /\ \A i \in 1..(n-1) : rest[i] >= 128
<1>1. /\ val \in Nat /\ rest[10] < 2 /\ rest[1] = val
      /\ \A i \in 2..10 : rest[i] = rest[i-1] \div 128
  BY ShiftedValues DEF Uint64
<1> HIDE DEF rest
<1>3. \A n \in Nat : n \div 128 \in Nat
  OBVIOUS
<1>4. ASSUME NEW i \in 1..10 PROVE rest[i] \in Nat
  <2> DEFINE IsNat(n) == rest[n] \in Nat
  <2>1. IsNat(1)
    BY <1>1
  <2>2. ASSUME NEW n \in 1..9, IsNat(n) PROVE IsNat(n + 1)
    <3>1. n + 1 \in 2..10 /\ (n + 1) - 1 = n
      OBVIOUS
    <3>2. rest[n + 1] = rest[n] \div 128
      BY <1>1, <3>1
    <3> QED
      BY <1>3, <2>2, <3>2
  <2> HIDE DEF IsNat
  <2>3. \A n \in 1..9 : IsNat(n) => IsNat(n + 1)
    BY <2>2
  <2>4. IsNat(2) /\ IsNat(3) /\ IsNat(4) /\ IsNat(5) /\ IsNat(6)
    BY <2>1, <2>3
  <2>5. IsNat(7) /\ IsNat(8) /\ IsNat(9) /\ IsNat(10)
    BY <2>3, <2>4
  <2>6. IsNat(i)
    BY <2>1, <2>4, <2>5
  <2> QED
    BY <2>6 DEF IsNat
<1>5. \E n \in 1..10 : IsSize(n)
  <2> SUFFICES ASSUME \A n \in 1..10 : ~IsSize(n) PROVE FALSE
    OBVIOUS
  <2> DEFINE Marked(n) == \A i \in 1..n : rest[i] >= 128
  <2>1. Marked(0)
    OBVIOUS
  <2>2. ASSUME NEW n \in 1..10, Marked(n - 1) PROVE n # 10 /\ Marked(n)
    <3>1. n # 10 /\ ~(rest[n] < 128)
      BY <2>2
    <3>2. rest[n] >= 128
      BY <1>4, <3>1
    <3>3. \A i \in 1..n : i = n \/ i \in 1..(n - 1)
      OBVIOUS
    <3> QED
      BY <2>2, <3>1, <3>2, <3>3
  <2> HIDE DEF Marked
  <2>3. \A n \in 1..10 : Marked(n - 1) => n # 10 /\ Marked(n)
    BY <2>2
  <2>4. Marked(1) /\ Marked(2) /\ Marked(3) /\ Marked(4) /\ Marked(5)
    BY <2>1, <2>3
  <2>5. Marked(6) /\ Marked(7) /\ Marked(8) /\ Marked(9)
    BY <2>3, <2>4
  <2> QED
    BY <2>3, <2>5
<1>6. size = CHOOSE n \in 1..10 : IsSize(n)
  BY DEF VarintSize, rest
<1>7. size \in 1..10 /\ IsSize(size)
  BY <1>5, <1>6
<1>8. text = [i \in 1..size |-> (rest[i] % 128) + (IF i < size THEN 128 ELSE 0)]
  BY DEF WriteVarint, rest
<1> HIDE DEF size, text
<1>9. \A n \in Nat : n % 128 \in 0..127 /\ (n < 128 => n % 128 = n)
  BY SMT
<1>10. rest[size] < 128 /\ rest[size] % 128 = rest[size]
  BY <1>1, <1>4, <1>7, <1>9
<1>11. ASSUME NEW i \in 1..size
       PROVE  /\ rest[i] \in Nat /\ text[i] \in Bytes
              /\ i = size => text[i] = rest[i] /\ text[i] < 128
              /\ i < size => /\ text[i] = (rest[i] % 128) + 128 /\ text[i] >= 128
                             /\ rest[i+1] = rest[i] \div 128
  <2>1. i \in 1..10 /\ (i < size => i + 1 \in 2..10)
    BY <1>7
  <2>2. rest[i] \in Nat /\ rest[i] % 128 \in 0..127
    BY <1>4, <1>9, <2>1
  <2>3. text[i] = (rest[i] % 128) + (IF i < size THEN 128 ELSE 0)
    BY <1>8
  <2>4. i < size => rest[i+1] = rest[i] \div 128
    BY <1>1, <2>1
  <2>5. CASE i = size
    BY <1>10, <2>2, <2>3, <2>5 DEF Bytes
  <2>6. CASE i < size
    <3>1. text[i] = (rest[i] % 128) + 128
      BY <2>3, <2>6
    <3>2. text[i] \in Bytes /\ text[i] >= 128
      <4> DEFINE x == rest[i] % 128
      <4>1. x \in 0..127 /\ text[i] = x + 128
        BY <2>2, <3>1
      <4> HIDE DEF x
      <4> QED
        BY <4>1 DEF Bytes
    <3> QED
      BY <2>2, <2>4, <2>6, <3>1, <3>2
  <2> QED
    BY <1>7, <2>1, <2>5, <2>6
<1>12. text \in Seq(Bytes) /\ Len(text) = size
  <2>1. text \in [1..size -> Bytes]
    BY <1>8, <1>11
  <2>2. size \in Nat
    BY <1>7
  <2> QED
    BY <2>1, <2>2
<1>13. size \in 1..size /\ \A i \in 1..(size - 1) : i \in 1..size /\ i < size
  BY <1>7
<1> QED
  BY <1>1, <1>7, <1>11, <1>12, <1>13 DEF rest, size, text

(* A number that was written is read back, wherever it stands. *)
LEMMA VarintReadBack ==
  ASSUME NEW val, Uint64(val), NEW data, Len(data) \in Nat, NEW start \in Nat \ {0},
         start + VarintSize(val) - 1 <= Len(data),
         \A i \in 1..VarintSize(val) : data[start + i - 1] = WriteVarint(val)[i]
  PROVE  ReadVarint(data, start) = [val |-> val, pos |-> start + VarintSize(val)]
<1> DEFINE size == VarintSize(val)
           text == WriteVarint(val)
           rest == Shifted(val)
           end == start + size
<1>1. /\ size \in 1..10 /\ rest[1] = val
      /\ text[size] = rest[size] /\ text[size] < 128
      /\ \A i \in 1..(size - 1) : /\ text[i] = (rest[i] % 128) + 128 /\ text[i] >= 128
                                  /\ rest[i+1] = rest[i] \div 128
  BY VarintShape
<1>2. \A i \in 1..size : rest[i] \in Nat /\ text[i] \in 0..255
  <2>1. text \in Seq(Bytes) /\ Len(text) = size /\ \A i \in 1..size : rest[i] \in Nat
    BY VarintShape
  <2> QED
    BY <2>1, ElementOfSeq DEF Bytes
<1>3. start + size - 1 <= Len(data) /\ \A i \in 1..size : data[start + i - 1] = text[i]
  OBVIOUS
<1> HIDE DEF size, text, rest
<1>4. /\ size \in 1..10 /\ end - 1 \in start..Len(data) /\ end \in Nat /\ start < end /\ end <= start + 10
      /\ start + size - 1 = end - 1
  <2>1. size \in 1..10
    BY <1>1
  <2> QED
    BY <1>3, <2>1
<1> HIDE DEF end
(* The byte at i is the k-th of the number. *)
<1>5. ASSUME NEW i \in start..(end - 1), NEW k, k = i - start + 1
      PROVE  /\ k \in 1..size /\ (k = size <=> i = end - 1) /\ i + 1 \in start..end
             /\ i + 1 - start + 1 = k + 1 /\ data[i] = text[k]
  <2>1. k \in 1..size /\ (k = size <=> i = end - 1) /\ i + 1 \in start..end /\ start + k - 1 = i
        /\ i + 1 - start + 1 = k + 1
    BY <1>4, <1>5
  <2> QED
    BY <1>3, <2>1
<1>6. VarintEnd(data, start) = end
  <2> DEFINE last == {i \in start..Len(data) : data[i] < 128}
             least == CHOOSE i \in last : \A j \in last : i <= j
  <2>1. end - 1 \in last
    <3>1. data[end - 1] = text[size]
      <4>1. end - 1 \in start..(end - 1) /\ size = (end - 1) - start + 1
        BY <1>4
      <4> QED
        BY <1>5, <4>1
    <3> QED
      BY <1>1, <1>4, <3>1
  <2>2. ASSUME NEW j \in last PROVE end - 1 <= j
    <3> SUFFICES ASSUME j < end - 1 PROVE FALSE
      BY <1>4
    <3> DEFINE k == j - start + 1
    <3>1. j \in start..(end - 1)
      BY <1>4
    <3>2. k \in 1..size /\ k # size /\ data[j] = text[k]
      BY <1>4, <1>5, <3>1
    <3> HIDE DEF k
    <3>3. k \in 1..(size - 1)
      BY <1>4, <3>2
    <3>4. text[k] >= 128 /\ text[k] \in 0..255
      BY <1>1, <1>2, <3>2, <3>3
    <3>5. text[k] < 128
      BY <3>2
    <3> DEFINE b == text[k]
    <3>6. b \in 0..255 /\ b >= 128 /\ b < 128
      BY <3>4, <3>5
    <3> HIDE DEF b
    <3> QED
      BY <3>6
  <2>3. \A j \in last : j \in Int
    BY <1>4
  <2> HIDE DEF last
  <2>4. least = end - 1
    BY <1>4, <2>1, <2>2, <2>3
  <2>5. last # {} /\ VarintEnd(data, start) = 1 + least
    BY <2>1 DEF VarintEnd, last
  <2> HIDE DEF least
  <2> QED
    BY <1>4, <2>4, <2>5
<1> DEFINE Values(f) == f = [i \in start..end |-> IF i = end THEN 0 ELSE (data[i] % 128) + 128 * f[i+1]]
           value == CHOOSE f : Values(f)
           left == [i \in start..end |-> IF i = end THEN 0 ELSE rest[i - start + 1]]
<1>7. ASSUME NEW i \in start..(end - 1)
      PROVE  rest[i - start + 1] = (data[i] % 128) + 128 * left[i+1]
  <2> DEFINE k == i - start + 1
  <2>1. /\ k \in 1..size /\ (k = size <=> i = end - 1) /\ i + 1 \in start..end
        /\ i + 1 - start + 1 = k + 1 /\ data[i] = text[k]
    BY <1>5
  <2> HIDE DEF k
  <2>2. /\ \A n \in Nat : n = (n % 128) + 128 * (n \div 128)
        /\ \A n \in Nat : ((n % 128) + 128) % 128 = n % 128
        /\ \A n \in Nat : n < 128 => n % 128 = n
    BY SMT
  <2>3. rest[k] \in Nat
    BY <1>2, <2>1
  <2>4. CASE k = size
    <3>1. i + 1 = end
      BY <1>4, <2>1, <2>4
    <3>2. left[i+1] = 0
      BY <2>1, <3>1
    <3>3. data[i] = rest[k] /\ rest[k] < 128
      BY <1>1, <2>1, <2>4
    <3>4. data[i] % 128 = rest[k]
      BY <2>2, <2>3, <3>3
    <3> HIDE DEF left
    <3>5. rest[k] = (data[i] % 128) + 128 * left[i+1]
      BY <2>3, <3>2, <3>4
    <3> QED
      BY <3>5 DEF k
  <2>5. CASE k # size
    <3>1. i + 1 # end /\ k \in 1..(size - 1)
      BY <1>4, <2>1, <2>5
    <3>2. left[i+1] = rest[k+1]
      BY <2>1, <3>1
    <3>3. data[i] = (rest[k] % 128) + 128 /\ rest[k+1] = rest[k] \div 128
      BY <1>1, <2>1, <3>1
    <3>4. data[i] % 128 = rest[k] % 128
      BY <2>2, <2>3, <3>3
    <3> HIDE DEF left
    <3>5. rest[k] = (data[i] % 128) + 128 * left[i+1]
      BY <2>2, <2>3, <3>2, <3>3, <3>4
    <3> QED
      BY <3>5 DEF k
  <2> QED
    BY <2>4, <2>5
<1>8. Values(left)
  <2>1. \A i \in start..end : i # end => i \in start..(end - 1)
    BY <1>4
  <2>2. ASSUME NEW i \in start..end
        PROVE  left[i] = IF i = end THEN 0 ELSE (data[i] % 128) + 128 * left[i+1]
    <3>1. left[i] = IF i = end THEN 0 ELSE rest[i - start + 1]
      OBVIOUS
    <3> HIDE DEF left
    <3> QED
      BY <1>7, <2>1, <3>1
  <2>3. left = [i \in start..end |-> left[i]]
    OBVIOUS
  <2> HIDE DEF left
  <2> QED
    BY <2>2, <2>3
<1>9. Values(value)
  <2> HIDE DEF Values
  <2> QED
    BY <1>8
<1>10. \A i \in start..end : /\ left[i] = IF i = end THEN 0 ELSE (data[i] % 128) + 128 * left[i+1]
                             /\ value[i] = IF i = end THEN 0 ELSE (data[i] % 128) + 128 * value[i+1]
  <2> HIDE DEF left, value
  <2> QED
    BY <1>8, <1>9
<1> DEFINE Same(j) == \A i \in start..end : i + j >= end => value[i] = left[i]
<1> HIDE DEF left, value, Values
<1>11. Same(0)
  BY <1>4, <1>10
<1>12. ASSUME NEW j \in Nat, Same(j) PROVE Same(j + 1)
  <2> SUFFICES ASSUME NEW i \in start..end, i + j + 1 >= end PROVE value[i] = left[i]
    BY <1>4
  <2>1. i # end => i + 1 \in start..end /\ (i + 1) + j >= end
    BY <1>4
  <2>2. i # end => value[i+1] = left[i+1]
    BY <1>12, <2>1
  <2> QED
    BY <1>10, <2>2
<1>13. Same(10)
  <2> HIDE DEF Same
  <2>1. \A j \in Nat : Same(j) => Same(j + 1)
    BY <1>12
  <2>2. Same(1) /\ Same(2) /\ Same(3) /\ Same(4) /\ Same(5)
    BY <1>11, <2>1
  <2> QED
    BY <2>1, <2>2
<1>14. value[start] = val
  <2>1. start \in start..end /\ start + 10 >= end /\ start # end /\ start - start + 1 = 1
    BY <1>4
  <2>2. value[start] = left[start]
    BY <1>13, <2>1
  <2>3. left[start] = rest[1]
    BY <2>1 DEF left
  <2> QED
    BY <1>1, <2>2, <2>3
<1>15. ReadVarint(data, start) = [val |-> value[start], pos |-> end]
  BY <1>6 DEF ReadVarint, value, Values
<1> QED
  BY <1>14, <1>15 DEF size, end

-----------------------------------------------------------------------------
(* Percent escapes.                                                         *)

(* The n positions of J, of m there are, in their order. *)
Lists(f, n, m, J) ==
  /\ n \in Nat /\ m \in Nat /\ f \in [1..n -> 1..m]
  /\ \A i, j \in 1..n : i < j => f[i] < f[j]
  /\ J = {f[i] : i \in 1..n}

(* Positions that are listed in order are picked in that order. *)
LEMMA PickedListed ==
  ASSUME NEW n, NEW m, NEW f, NEW J, Lists(f, n, m, J), NEW s
  PROVE  Picked(s, J) = [i \in 1..n |-> s[f[i]]]
<1>0. /\ n \in Nat /\ m \in Nat /\ f \in [1..n -> 1..m]
      /\ \A i, j \in 1..n : i < j => f[i] < f[j]
      /\ J = {f[i] : i \in 1..n}
  BY DEF Lists
<1> USE <1>0
<1>1. ASSUME NEW k \in 0..n PROVE Cardinality({f[i] : i \in 1..k}) = k
  <2> DEFINE S == {f[i] : i \in 1..k}
             g == [i \in 1..k |-> f[i]]
  <2>1. g \in [1..k -> S]
    OBVIOUS
  <2>2. \A i, j \in 1..k : g[i] = g[j] => i = j
    <3>1. \A i \in 1..k : i \in 1..n /\ i \in Int /\ f[i] \in Int
      OBVIOUS
    <3>2. \A i, j \in 1..k : g[i] = f[i] /\ g[j] = f[j] /\ (i < j \/ j < i \/ i = j)
      BY <3>1
    <3> HIDE DEF g
    <3>3. \A i, j \in 1..k : i < j => f[i] < f[j]
      BY <3>1
    <3> QED
      BY <3>1, <3>2, <3>3
  <2>3. \A x \in S : \E i \in 1..k : g[i] = x
    OBVIOUS
  <2> HIDE DEF g, S
  <2>4. g \in Bijection(1..k, S)
    BY <2>1, <2>2, <2>3 DEF Bijection, Injection, IsInjective, Surjection
  <2>5. IsFiniteSet(1..k) /\ Cardinality(1..k) = k
    BY FS_Interval
  <2>6. ExistsBijection(1..k, S)
    BY <2>4 DEF ExistsBijection
  <2>7. Cardinality(S) = Cardinality(1..k)
    BY <2>5, <2>6, FS_Bijection
  <2> QED
    BY <2>5, <2>7 DEF S
<1>2. ASSUME NEW k \in 1..n PROVE Rank(J, f[k]) = k
  <2> DEFINE upTo == {j \in J : j <= f[k]}
             S == {f[i] : i \in 1..k}
  <2>1. ASSUME NEW i \in 1..n PROVE f[i] \in Int /\ (f[i] <= f[k] <=> i \in 1..k)
    <3>1. i < k \/ i = k \/ k < i
      OBVIOUS
    <3>2. f[i] \in Int /\ f[k] \in Int
      OBVIOUS
    <3> QED
      BY <3>1, <3>2
  <2>2. \A i \in 1..k : i \in 1..n
    OBVIOUS
  <2>3. upTo = S
    BY <2>1, <2>2
  <2>4. Rank(J, f[k]) = Cardinality(upTo)
    BY DEF Rank
  <2>5. k \in 0..n
    OBVIOUS
  <2> QED
    BY <1>1, <2>3, <2>4, <2>5
<1>3. ASSUME NEW k \in 1..n PROVE Position(J, k) = f[k]
  <2>1. f[k] \in J
    OBVIOUS
  <2>2. \A p \in J : \E i \in 1..n : p = f[i]
    OBVIOUS
  <2>3. \A p \in J : Rank(J, p) = k => p = f[k]
    BY <1>2, <2>2
  <2>4. Rank(J, f[k]) = k
    BY <1>2
  <2> QED
    BY <2>1, <2>3, <2>4 DEF Position
<1>4. Cardinality(J) = n
  <2>1. n \in 0..n
    OBVIOUS
  <2> QED
    BY <1>1, <2>1
<1>5. Picked(s, J) = [k \in 1..n |-> s[Position(J, k)]]
  BY <1>4 DEF Picked
<1> QED
  BY <1>3, <1>5

(* Neighbours among the positions are neighbours in what is picked. *)
LEMMA PositionNeighbours ==
  ASSUME NEW n \in Nat, NEW I \in SUBSET (1..n), NEW k \in 1..Cardinality(I)
  PROVE  LET p == Position(I, k)
         IN /\ p + 1 \in I => k + 1 \in 1..Cardinality(I) /\ Position(I, k + 1) = p + 1
            /\ p - 1 \in I => k - 1 \in 1..Cardinality(I) /\ Position(I, k - 1) = p - 1
<1> DEFINE size == Cardinality(I)
           at(l) == Position(I, l)
<1>1. /\ size \in Nat /\ \A l \in 1..size : at(l) \in I /\ at(l) \in Int
      /\ \A h, l \in 1..size : h < l => at(h) < at(l)
      /\ \A i \in I : \E l \in 1..size : at(l) = i
  <2>1. /\ size \in Nat /\ \A l \in 1..size : Position(I, l) \in I
        /\ \A h, l \in 1..size : h < l => Position(I, h) < Position(I, l)
        /\ \A i \in I : \E l \in 1..size : Position(I, l) = i
    BY PositionProperties
  <2>2. \A i \in I : i \in Int
    OBVIOUS
  <2> HIDE DEF size
  <2> QED
    BY <2>1, <2>2
<1> HIDE DEF size, at
<1>2. k \in 1..size /\ k \in Int /\ at(k) \in Int
  BY <1>1 DEF size
<1>3. ASSUME NEW h \in 1..size, NEW l \in 1..size, at(l) = at(h) + 1 PROVE l = h + 1
  <2>1. h \in Int /\ l \in Int /\ at(h) \in Int /\ at(l) \in Int
    BY <1>1
  <2>2. ~(l < h) /\ l # h
    BY <1>1, <1>3, <2>1
  <2>3. ~(h + 1 < l)
    <3> SUFFICES ASSUME h + 1 < l PROVE FALSE
      OBVIOUS
    <3>1. h + 1 \in 1..size /\ h < h + 1
      BY <1>1, <2>1
    <3>2. at(h) < at(h + 1) /\ at(h + 1) < at(l) /\ at(h + 1) \in Int
      BY <1>1, <3>1
    <3> QED
      BY <1>3, <2>1, <3>2
  <2> QED
    BY <2>1, <2>2, <2>3
<1>4. ASSUME at(k) + 1 \in I PROVE k + 1 \in 1..size /\ at(k + 1) = at(k) + 1
  <2> PICK l \in 1..size : at(l) = at(k) + 1
    BY <1>1, <1>4
  <2> QED
    BY <1>2, <1>3
<1>5. ASSUME at(k) - 1 \in I PROVE k - 1 \in 1..size /\ at(k - 1) = at(k) - 1
  <2> PICK l \in 1..size : at(l) = at(k) - 1
    BY <1>1, <1>5
  <2>1. at(k) = at(l) + 1 /\ l \in Int
    BY <1>1, <1>2
  <2>2. k = l + 1
    BY <1>2, <1>3, <2>1
  <2>3. k - 1 = l
    BY <1>2, <2>1, <2>2
  <2> QED
    BY <2>3
<1> QED
  BY <1>4, <1>5 DEF size, at

(* A hex digit is read as what was written, and is no percent sign. *)
LEMMA HexDigits ==
  ASSUME NEW d \in 0..15, NEW lower \in BOOLEAN
  PROVE  Hex(HexDigit(d, lower)) = d /\ HexDigit(d, lower) # Percent
BY DEF Hex, HexDigit, Percent

LEMMA EscapedCharacter ==
  ASSUME NEW c \in Bytes, NEW lower \in BOOLEAN
  PROVE  LET e == Escaped(c, lower)
         IN /\ e[1] = Percent /\ e[2] # Percent /\ e[3] # Percent
            /\ Hex(e[2]) >= 0 /\ Hex(e[3]) >= 0 /\ 16 * Hex(e[2]) + Hex(e[3]) = c
<1>1. c \div 16 \in 0..15 /\ c % 16 \in 0..15 /\ c = (c \div 16) * 16 + (c % 16)
  BY ByteParts
<1> DEFINE h == c \div 16
           l == c % 16
<1>2. Hex(HexDigit(h, lower)) = h /\ HexDigit(h, lower) # Percent
  BY <1>1, HexDigits
<1>3. Hex(HexDigit(l, lower)) = l /\ HexDigit(l, lower) # Percent
  BY <1>1, HexDigits
<1>4. Escaped(c, lower) = <<Percent, HexDigit(h, lower), HexDigit(l, lower)>>
  BY DEF Escaped
<1> HIDE DEF h, l
<1>5. h \in 0..15 /\ l \in 0..15 /\ c = h * 16 + l
  BY <1>1 DEF h, l
<1> QED
  BY <1>2, <1>3, <1>4, <1>5

(* Place j of the three that character i has before those not needed go. *)
CharacterAt(p) == Group(p, 3) + 1

LEMMA Threes ==
  ASSUME NEW n \in Nat, NEW p \in 1..(3 * n)
  PROVE  CharacterAt(p) \in 1..n /\ Place(p, 3) \in 1..3 /\ p = 3 * (CharacterAt(p) - 1) + Place(p, 3)
BY SMT DEF CharacterAt, Group, Place

LEMMA ThreeOf ==
  ASSUME NEW n \in Nat, NEW i \in 1..n, NEW j \in 1..3, NEW p, p = 3 * (i - 1) + j
  PROVE  p \in 1..(3 * n) /\ CharacterAt(p) = i /\ Place(p, 3) = j
BY SMT DEF CharacterAt, Group, Place

(* Where of a text's threes a kept position is, and what its neighbours are. *)
LEMMA ThreesNearby ==
  ASSUME NEW n \in Nat, NEW p \in 1..(3 * n)
  PROVE  /\ Place(p, 3) = 1 => /\ p + 1 \in 1..(3 * n) /\ CharacterAt(p + 1) = CharacterAt(p)
                               /\ Place(p + 1, 3) = 2
                               /\ p + 2 \in 1..(3 * n) /\ CharacterAt(p + 2) = CharacterAt(p)
                               /\ Place(p + 2, 3) = 3
         /\ Place(p, 3) = 2 => /\ p - 1 \in 1..(3 * n) /\ CharacterAt(p - 1) = CharacterAt(p)
                               /\ Place(p - 1, 3) = 1
         /\ Place(p, 3) = 3 => /\ p - 1 \in 1..(3 * n) /\ CharacterAt(p - 1) = CharacterAt(p)
                               /\ Place(p - 1, 3) = 2
                               /\ p - 2 \in 1..(3 * n) /\ CharacterAt(p - 2) = CharacterAt(p)
                               /\ Place(p - 2, 3) = 1
<1> DEFINE i == CharacterAt(p)
<1>1. i \in 1..n /\ p = 3 * (i - 1) + Place(p, 3)
  BY Threes
<1> HIDE DEF i
<1>2. CASE Place(p, 3) = 1
  <2>1. p + 1 = 3 * (i - 1) + 2 /\ p + 2 = 3 * (i - 1) + 3
    BY <1>1, <1>2
  <2> QED
    BY <1>1, <1>2, <2>1, ThreeOf DEF i
<1>3. CASE Place(p, 3) = 2
  <2>1. p - 1 = 3 * (i - 1) + 1
    BY <1>1, <1>3
  <2> QED
    BY <1>1, <1>3, <2>1, ThreeOf DEF i
<1>4. CASE Place(p, 3) = 3
  <2>1. p - 1 = 3 * (i - 1) + 2 /\ p - 2 = 3 * (i - 1) + 1
    BY <1>1, <1>4
  <2> QED
    BY <1>1, <1>4, <2>1, ThreeOf DEF i
<1> QED
  BY <1>2, <1>3, <1>4, Threes

(* What was escaped, whichever characters, is unescaped again. *)
LEMMA UnescapeEscape ==
  ASSUME NEW t \in Seq(Bytes), \A i \in 1..Len(t) : t[i] # Percent,
         NEW escaped, NEW lower \in BOOLEAN
  PROVE  Unescape(Escape(t, escaped, lower)) = t
<1> DEFINE n == Len(t)
           W == [k \in 1..(3 * n) |-> LET c == t[Group(k, 3) + 1]
                                      IN IF c \in escaped THEN Escaped(c, lower)[Place(k, 3)] ELSE c]
           I == {k \in DOMAIN W : Place(k, 3) = 1 \/ t[Group(k, 3) + 1] \in escaped}
           E == Escape(t, escaped, lower)
           m == Cardinality(I)
           P(k) == Position(I, k)
           Esc == Escapes(E)
           U == [k \in DOMAIN E |-> IF k \in Esc THEN 16 * Hex(E[k+1]) + Hex(E[k+2]) ELSE E[k]]
           J == {k \in DOMAIN E : k - 1 \notin Esc /\ k - 2 \notin Esc}
<1>1. n \in Nat /\ DOMAIN t = 1..n /\ \A i \in 1..n : t[i] \in Bytes /\ t[i] # Percent
  BY LenProperties, ElementOfSeq
<1>2. E = Picked(W, I) /\ Unescape(E) = Picked(U, J)
  BY DEF Escape, Unescape
<1>3. /\ I \in SUBSET (1..(3 * n))
      /\ \A p \in 1..(3 * n) : /\ p \in I <=> Place(p, 3) = 1 \/ t[CharacterAt(p)] \in escaped
                               /\ W[p] = IF t[CharacterAt(p)] \in escaped
                                         THEN Escaped(t[CharacterAt(p)], lower)[Place(p, 3)]
                                         ELSE t[CharacterAt(p)]
  BY DEF CharacterAt
<1> HIDE DEF n, W, I
<1>4. /\ m \in Nat
      /\ \A k \in 1..m : P(k) \in I
      /\ \A k, l \in 1..m : k < l => P(k) < P(l)
      /\ \A p \in I : \E k \in 1..m : P(k) = p
  <2>1. 3 * n \in Nat
    BY <1>1
  <2> QED
    BY <1>3, <2>1, PositionProperties
<1>5. E = [k \in 1..m |-> W[P(k)]]
  BY <1>2 DEF Picked
<1>6. DOMAIN E = 1..m /\ Len(E) = m
  <2>1. \A k \in 1..m : E[k] = W[P(k)]
    BY <1>5
  <2> HIDE DEF E, P, m
  <2>2. DOMAIN E = 1..m /\ E = [k \in 1..m |-> E[k]]
    BY <1>5
  <2> QED
    BY <1>4, <2>2, FunctionShape
<1>7. \A k \in 1..m : /\ P(k) + 1 \in I => k + 1 \in 1..m /\ P(k + 1) = P(k) + 1
                      /\ P(k) - 1 \in I => k - 1 \in 1..m /\ P(k - 1) = P(k) - 1
  <2>1. 3 * n \in Nat
    BY <1>1
  <2> QED
    BY <1>3, <2>1, PositionNeighbours
<1> DEFINE C(k) == CharacterAt(P(k))
           Q(k) == Place(P(k), 3)
<1>8. ASSUME NEW k \in 1..m
      PROVE  /\ P(k) \in 1..(3 * n) /\ C(k) \in 1..n /\ Q(k) \in 1..3 /\ P(k) = 3 * (C(k) - 1) + Q(k)
             /\ t[C(k)] \in Bytes /\ t[C(k)] # Percent
             /\ Q(k) # 1 => t[C(k)] \in escaped
             /\ E[k] = IF t[C(k)] \in escaped THEN Escaped(t[C(k)], lower)[Q(k)] ELSE t[C(k)]
  <2>1. P(k) \in I /\ P(k) \in 1..(3 * n)
    BY <1>3, <1>4
  <2>2. C(k) \in 1..n /\ Q(k) \in 1..3 /\ P(k) = 3 * (C(k) - 1) + Q(k)
    BY <1>1, <2>1, Threes
  <2>3. E[k] = W[P(k)]
    BY <1>5
  <2> HIDE DEF E, P
  <2> QED
    BY <1>1, <1>3, <2>1, <2>2, <2>3
<1> HIDE DEF E, P, m
(* An escape: its three characters stand next to each other. *)
<1>9. ASSUME NEW k \in 1..m, Q(k) = 1, t[C(k)] \in escaped
      PROVE  /\ k + 1 \in 1..m /\ k + 2 \in 1..m
             /\ C(k + 1) = C(k) /\ C(k + 2) = C(k) /\ Q(k + 1) = 2 /\ Q(k + 2) = 3
  <2> DEFINE p == P(k)
  <2>1. /\ p + 1 \in 1..(3 * n) /\ CharacterAt(p + 1) = C(k) /\ Place(p + 1, 3) = 2
        /\ p + 2 \in 1..(3 * n) /\ CharacterAt(p + 2) = C(k) /\ Place(p + 2, 3) = 3
    BY <1>1, <1>8, <1>9, ThreesNearby
  <2>2. p + 1 \in I /\ p + 2 \in I /\ p \in Int
    <3>1. p \in Int
      BY <1>8
    <3>2. t[CharacterAt(p + 1)] \in escaped /\ t[CharacterAt(p + 2)] \in escaped
      BY <1>9, <2>1
    <3> HIDE DEF p
    <3> QED
      BY <1>3, <2>1, <3>1, <3>2
  <2>3. k + 1 \in 1..m /\ P(k + 1) = p + 1
    BY <1>7, <2>2
  <2>4. (k + 1) + 1 = k + 2 /\ (p + 1) + 1 = p + 2
    BY <2>2
  <2>5. k + 2 \in 1..m /\ P(k + 2) = p + 2
    BY <1>7, <2>2, <2>3, <2>4
  <2> QED
    BY <2>1, <2>3, <2>5
<1>10. ASSUME NEW k \in 1..m, Q(k) = 2 PROVE k - 1 \in 1..m /\ C(k - 1) = C(k) /\ Q(k - 1) = 1
  <2> DEFINE p == P(k)
  <2>1. p - 1 \in 1..(3 * n) /\ CharacterAt(p - 1) = C(k) /\ Place(p - 1, 3) = 1
    BY <1>1, <1>8, <1>10, ThreesNearby
  <2>2. k - 1 \in 1..m /\ P(k - 1) = p - 1
    BY <1>3, <1>7, <2>1
  <2> QED
    BY <2>1, <2>2
<1>11. ASSUME NEW k \in 1..m, Q(k) = 3 PROVE k - 2 \in 1..m /\ C(k - 2) = C(k) /\ Q(k - 2) = 1
  <2> DEFINE p == P(k)
  <2>1. p - 1 \in 1..(3 * n) /\ CharacterAt(p - 1) = C(k) /\ Place(p - 1, 3) = 2
    BY <1>1, <1>8, <1>11, ThreesNearby
  <2>2. p - 1 \in I
    BY <1>3, <1>8, <1>11, <2>1
  <2>3. k - 1 \in 1..m /\ P(k - 1) = p - 1
    BY <1>7, <2>2
  <2>4. C(k - 1) = C(k) /\ Q(k - 1) = 2
    BY <2>1, <2>3
  <2>5. (k - 1) - 1 = k - 2
    OBVIOUS
  <2> HIDE DEF C, Q
  <2> QED
    BY <1>10, <2>3, <2>4, <2>5
<1> HIDE DEF C, Q
<1>12. \A k \in 1..m : k \in Esc <=> Q(k) = 1 /\ t[C(k)] \in escaped
  <2> TAKE k \in 1..m
  <2>1. Esc = {i \in 1..(m - 2) : E[i] = Percent /\ Hex(E[i+1]) >= 0 /\ Hex(E[i+2]) >= 0}
    BY <1>6 DEF Escapes
  <2>2. ASSUME Q(k) = 1, t[C(k)] \in escaped PROVE k \in Esc
    <3>1. /\ k + 1 \in 1..m /\ k + 2 \in 1..m
          /\ C(k + 1) = C(k) /\ C(k + 2) = C(k) /\ Q(k + 1) = 2 /\ Q(k + 2) = 3
      BY <1>9, <2>2
    <3> DEFINE e == Escaped(t[C(k)], lower)
    <3>2. E[k] = e[1] /\ E[k + 1] = e[2] /\ E[k + 2] = e[3]
      BY <1>8, <2>2, <3>1
    <3>3. e[1] = Percent /\ Hex(e[2]) >= 0 /\ Hex(e[3]) >= 0
      BY <1>8, EscapedCharacter
    <3>4. k \in 1..(m - 2)
      BY <1>4, <3>1
    <3> HIDE DEF e
    <3> QED
      BY <2>1, <3>2, <3>3, <3>4
  <2>3. ASSUME k \in Esc PROVE Q(k) = 1 /\ t[C(k)] \in escaped
    <3>1. E[k] = Percent
      BY <2>1, <2>3
    <3>2. t[C(k)] \in escaped
      BY <1>8, <3>1
    <3>3. E[k] = Escaped(t[C(k)], lower)[Q(k)] /\ Q(k) \in {1, 2, 3}
      BY <1>8, <3>2
    <3>4. Escaped(t[C(k)], lower)[2] # Percent /\ Escaped(t[C(k)], lower)[3] # Percent
      BY <1>8, EscapedCharacter
    <3> QED
      BY <3>1, <3>2, <3>3, <3>4
  <2> QED
    BY <2>2, <2>3
<1>13. Esc \subseteq 1..m
  BY <1>4, <1>6 DEF Escapes
<1>14. ASSUME NEW k \in 1..m
       PROVE  /\ k \in J <=> Q(k) = 1
              /\ Q(k) = 1 => U[k] = t[C(k)]
  <2>1. k \in J <=> k - 1 \notin Esc /\ k - 2 \notin Esc
    BY <1>6
  <2>2. U[k] = IF k \in Esc THEN 16 * Hex(E[k+1]) + Hex(E[k+2]) ELSE E[k]
    BY <1>6
  <2> HIDE DEF J, U, Esc
  <2>3. CASE Q(k) = 1
    <3>1. k - 1 \notin Esc
      <4> SUFFICES ASSUME k - 1 \in Esc PROVE FALSE
        OBVIOUS
      <4>1. k - 1 \in 1..m /\ Q(k - 1) = 1 /\ t[C(k - 1)] \in escaped
        BY <1>12, <1>13
      <4>2. Q((k - 1) + 1) = 2
        BY <1>9, <4>1
      <4>3. (k - 1) + 1 = k
        OBVIOUS
      <4> QED
        BY <2>3, <4>2, <4>3
    <3>2. k - 2 \notin Esc
      <4> SUFFICES ASSUME k - 2 \in Esc PROVE FALSE
        OBVIOUS
      <4>1. k - 2 \in 1..m /\ Q(k - 2) = 1 /\ t[C(k - 2)] \in escaped
        BY <1>12, <1>13
      <4>2. Q((k - 2) + 2) = 3
        BY <1>9, <4>1
      <4>3. (k - 2) + 2 = k
        OBVIOUS
      <4> QED
        BY <2>3, <4>2, <4>3
    <3>3. U[k] = t[C(k)]
      <4>1. CASE t[C(k)] \in escaped
        <5>1. /\ k + 1 \in 1..m /\ k + 2 \in 1..m
              /\ C(k + 1) = C(k) /\ C(k + 2) = C(k) /\ Q(k + 1) = 2 /\ Q(k + 2) = 3
          BY <1>9, <2>3, <4>1
        <5> DEFINE e == Escaped(t[C(k)], lower)
        <5>2. E[k + 1] = e[2] /\ E[k + 2] = e[3]
          BY <1>8, <4>1, <5>1
        <5>3. 16 * Hex(e[2]) + Hex(e[3]) = t[C(k)]
          BY <1>8, EscapedCharacter
        <5>4. k \in Esc
          BY <1>12, <2>3, <4>1
        <5> HIDE DEF e
        <5> QED
          BY <2>2, <5>2, <5>3, <5>4
      <4>2. CASE t[C(k)] \notin escaped
        BY <1>8, <1>12, <2>2, <4>2
      <4> QED
        BY <4>1, <4>2
    <3> QED
      BY <2>1, <2>3, <3>1, <3>2, <3>3
  <2>4. CASE Q(k) = 2
    <3>1. k - 1 \in 1..m /\ C(k - 1) = C(k) /\ Q(k - 1) = 1
      BY <1>10, <2>4
    <3>2. t[C(k)] \in escaped
      BY <1>8, <2>4
    <3>3. k - 1 \in Esc
      BY <1>12, <3>1, <3>2
    <3> QED
      BY <2>1, <2>4, <3>3
  <2>5. CASE Q(k) = 3
    <3>1. t[C(k - 2)] \in escaped /\ k - 2 \in 1..m /\ Q(k - 2) = 1
      BY <1>8, <1>11, <2>5
    <3>2. k - 2 \in Esc
      BY <1>12, <3>1
    <3> QED
      BY <2>1, <2>5, <3>2
  <2>6. Q(k) \in {1, 2, 3}
    BY <1>8
  <2> QED
    BY <2>3, <2>4, <2>5, <2>6
<1>15. J \subseteq 1..m
  BY <1>6
<1> HIDE DEF J, U, Esc
(* The first places, in the order of their characters. *)
<1> DEFINE f == [i \in 1..n |-> CHOOSE k \in 1..m : P(k) = 3 * (i - 1) + 1]
<1>16. ASSUME NEW i \in 1..n
       PROVE  f[i] \in 1..m /\ P(f[i]) = 3 * (i - 1) + 1 /\ C(f[i]) = i /\ Q(f[i]) = 1
  <2> DEFINE p == 3 * (i - 1) + 1
  <2>1. p \in 1..(3 * n) /\ CharacterAt(p) = i /\ Place(p, 3) = 1
    <3>1. p = 3 * (i - 1) + 1 /\ 1 \in 1..3
      OBVIOUS
    <3> HIDE DEF p
    <3> QED
      BY <1>1, <3>1, SMT DEF CharacterAt, Group, Place
  <2>2. \E k \in 1..m : P(k) = p
    BY <1>3, <1>4, <2>1
  <2>3. f[i] = CHOOSE k \in 1..m : P(k) = p
    OBVIOUS
  <2> HIDE DEF f, p
  <2>4. f[i] \in 1..m /\ P(f[i]) = p
    BY <2>2, <2>3
  <2> QED
    BY <2>1, <2>4 DEF C, Q, p
<1>17. f \in [1..n -> 1..m]
  BY <1>16
<1> HIDE DEF f
<1>18. ASSUME NEW i \in 1..n, NEW j \in 1..n, i < j PROVE f[i] < f[j]
  <2>1. f[i] \in 1..m /\ f[j] \in 1..m /\ P(f[i]) < P(f[j])
    BY <1>16, <1>18
  <2>2. ~(f[j] < f[i]) /\ f[i] # f[j]
    <3>1. P(f[i]) \in Int /\ P(f[j]) \in Int
      BY <1>16
    <3>2. f[j] < f[i] => P(f[j]) < P(f[i])
      BY <1>4, <2>1
    <3> QED
      BY <2>1, <3>1, <3>2
  <2> QED
    BY <1>4, <2>1, <2>2
<1>19. J = {f[i] : i \in 1..n}
  <2>1. ASSUME NEW k \in J PROVE \E i \in 1..n : k = f[i]
    <3>1. k \in 1..m /\ Q(k) = 1 /\ C(k) \in 1..n
      BY <1>8, <1>14, <1>15
    <3> DEFINE l == f[C(k)]
    <3>2. l \in 1..m /\ P(l) = P(k)
      BY <1>8, <1>16, <3>1
    <3>3. ~(k < l) /\ ~(l < k)
      <4>1. P(k) \in Int
        BY <1>8, <3>1
      <4> HIDE DEF l
      <4> QED
        BY <1>4, <3>1, <3>2, <4>1
    <3>4. k = l
      BY <3>1, <3>2, <3>3
    <3> QED
      BY <3>1, <3>4
  <2>2. ASSUME NEW i \in 1..n PROVE f[i] \in J
    BY <1>14, <1>16
  <2> QED
    BY <2>1, <2>2
<1>20. Picked(U, J) = [i \in 1..n |-> U[f[i]]]
  <2>1. \A i, j \in 1..n : i < j => f[i] < f[j]
    BY <1>18
  <2>2. Lists(f, n, m, J)
    BY <1>1, <1>4, <1>17, <1>19, <2>1 DEF Lists
  <2> QED
    BY <2>2, PickedListed
<1>21. \A i \in 1..n : U[f[i]] = t[i]
  BY <1>14, <1>16
<1>22. t = [i \in 1..n |-> t[i]]
  BY SeqDef, LenProperties DEF n
<1> QED
  BY <1>2, <1>20, <1>21, <1>22 DEF E
-----------------------------------------------------------------------------
(* The messages of visitor_data: what the reader gets of a text is the       *)
(* message it was made of, and it reads the id where its field stands.       *)

(* A text without a percent sign stays as it is. *)
LEMMA UnescapePlain ==
  ASSUME NEW t \in Seq(Bytes), \A i \in 1..Len(t) : t[i] # Percent
  PROVE  Unescape(t) = t
<1> DEFINE n == Len(t)
           U == [k \in DOMAIN t |-> IF k \in Escapes(t) THEN 16 * Hex(t[k+1]) + Hex(t[k+2]) ELSE t[k]]
           J == {k \in DOMAIN t : k - 1 \notin Escapes(t) /\ k - 2 \notin Escapes(t)}
<1>1. n \in Nat /\ DOMAIN t = 1..n /\ t = [k \in 1..n |-> t[k]]
  BY SeqDef, LenProperties
<1>2. Escapes(t) = {}
  BY <1>1 DEF Escapes
<1>3. Unescape(t) = Picked(U, J)
  BY DEF Unescape
<1>4. J = 1..n /\ U = t
  BY <1>1, <1>2
<1>5. Picked(t, 1..n) = [k \in 1..n |-> t[k]]
  BY <1>1, PickedPrefix
<1> QED
  BY <1>1, <1>3, <1>4, <1>5

(* A base64 text is of bytes without a percent sign. *)
LEMMA AlphabetPlain ==
  ASSUME NEW v \in 0..63, NEW c, Normal(c) = STANDARD_CHARS[v]
  PROVE  c \in Bytes /\ c # Percent
<1>1. STANDARD_CHARS[v] \in 0..255 /\ STANDARD_CHARS[v] # 37
  BY SMT DEF STANDARD_CHARS
<1> QED
  BY <1>1, SMT DEF Normal, Bytes, Percent, Dot, Eq

LEMMA EncodedPlain ==
  ASSUME NEW data \in Seq(Bytes), NEW url_safe \in BOOLEAN
  PROVE  /\ Encode(data, url_safe) \in Seq(Bytes)
         /\ \A i \in 1..Len(Encode(data, url_safe)) : Encode(data, url_safe)[i] # Percent
<1> DEFINE text == Encode(data, url_safe)
           n == Characters(Len(data))
<1>1. /\ IsSeq(text) /\ Len(text) \in Nat /\ DOMAIN text = 1..Len(text)
      /\ \A k \in DOMAIN text :
           IF k <= n THEN text[k] # Eq /\ Normal(text[k]) = STANDARD_CHARS[SextetAt(data, k)]
           ELSE text[k] = Eq
  BY EncodeShape
<1> HIDE DEF text, n
<1>2. ASSUME NEW k \in DOMAIN text PROVE text[k] \in Bytes /\ text[k] # Percent
  <2>1. k \in Nat \ {0}
    BY <1>1
  <2>2. SextetAt(data, k) \in 0..63
    BY <2>1, SextetType
  <2>3. CASE text[k] = Eq
    BY <2>3 DEF Eq, Bytes, Percent
  <2>4. CASE Normal(text[k]) = STANDARD_CHARS[SextetAt(data, k)]
    BY <2>2, <2>4, AlphabetPlain
  <2> QED
    BY <1>1, <2>3, <2>4
<1>3. text \in Seq(Bytes)
  <2>1. text \in Seq({text[i] : i \in DOMAIN text})
    BY <1>1 DEF IsSeq
  <2>2. text \in [1..Len(text) -> Bytes]
    BY <1>1, <1>2, <2>1, LenProperties
  <2> QED
    BY <1>1, <2>2
<1> QED
  BY <1>1, <1>2, <1>3 DEF text

(* What the reader decodes: the message, however it was escaped. *)
LEMMA PlainMessage ==
  ASSUME NEW data \in Seq(Bytes)
  PROVE  Decode(Unescape(Encode(data, TRUE))) = data
<1>1. TRUE \in BOOLEAN
  OBVIOUS
<1>2. Unescape(Encode(data, TRUE)) = Encode(data, TRUE)
  BY <1>1, EncodedPlain, UnescapePlain
<1> QED
  BY <1>1, <1>2, DecodeEncode

LEMMA EscapedMessage ==
  ASSUME NEW data \in Seq(Bytes), NEW url_safe \in BOOLEAN, NEW escaped, NEW lower \in BOOLEAN
  PROVE  Decode(Unescape(Escape(Encode(data, url_safe), escaped, lower))) = data
<1>1. Unescape(Escape(Encode(data, url_safe), escaped, lower)) = Encode(data, url_safe)
  BY EncodedPlain, UnescapeEscape
<1> QED
  BY <1>1, DecodeEncode

(* The bytes of a field of bytes. *)
LEMMA BytesFieldShape ==
  ASSUME NEW t \in Bytes, NEW data \in Seq(Bytes), Uint64(Len(data))
  PROVE  LET field == BytesField(t, data)
             number == WriteVarint(Len(data))
             size == VarintSize(Len(data))
         IN /\ field \in Seq(Bytes) /\ Len(field) = 1 + size + Len(data) /\ size \in 1..10
            /\ field[1] = t
            /\ \A i \in 1..size : field[1 + i] = number[i]
            /\ \A i \in 1..Len(data) : field[1 + size + i] = data[i]
<1> DEFINE number == WriteVarint(Len(data))
           size == VarintSize(Len(data))
           tag == <<t>>
           front == tag \o number
           field == front \o data
<1>0. data \in Seq(Bytes)
  OBVIOUS
<1>1. size \in 1..10 /\ number \in Seq(Bytes) /\ Len(number) = size
  BY VarintShape
<1>2. tag \in Seq(Bytes) /\ Len(tag) = 1 /\ tag[1] = t
  BY DEF Bytes
<1>3. BytesField(t, data) = field
  BY DEF BytesField
<1> HIDE DEF number, size, tag
<1>4. /\ front \in Seq(Bytes) /\ Len(front) = Len(tag) + Len(number)
      /\ \A i \in 1..(Len(tag) + Len(number)) :
           front[i] = IF i <= Len(tag) THEN tag[i] ELSE number[i - Len(tag)]
  BY <1>1, <1>2, ConcatProperties, Zenon
<1> HIDE DEF front
<1>5. /\ field \in Seq(Bytes) /\ Len(field) = Len(front) + Len(data)
      /\ \A i \in 1..(Len(front) + Len(data)) :
           field[i] = IF i <= Len(front) THEN front[i] ELSE data[i - Len(front)]
  <2>1. front \in Seq(Bytes)
    BY <1>4
  <2> QED
    BY <1>0, <2>1, ConcatProperties, Zenon
<1> HIDE DEF field
<1>6. Len(data) \in Nat /\ size \in Nat /\ Len(front) = 1 + size /\ Len(field) = 1 + size + Len(data)
  BY <1>1, <1>2, <1>4, <1>5, LenProperties
<1>7. \A i \in 1..(1 + size) : field[i] = IF i <= 1 THEN tag[i] ELSE number[i - 1]
  <2> TAKE i \in 1..(1 + size)
  <2>1. i \in 1..(Len(front) + Len(data)) /\ i <= Len(front) /\ i \in 1..(Len(tag) + Len(number))
    BY <1>1, <1>2, <1>6
  <2> QED
    BY <1>2, <1>4, <1>5, <2>1
<1>8. field[1] = t
  BY <1>2, <1>6, <1>7
<1>9. \A i \in 1..size : field[1 + i] = number[i]
  <2> TAKE i \in 1..size
  <2>1. 1 + i \in 1..(1 + size) /\ ~(1 + i <= 1) /\ (1 + i) - 1 = i
    BY <1>6
  <2> QED
    BY <1>7, <2>1
<1>10. \A i \in 1..Len(data) : field[1 + size + i] = data[i]
  <2> TAKE i \in 1..Len(data)
  <2> DEFINE j == 1 + size + i
  <2>1. j \in 1..(Len(front) + Len(data)) /\ ~(j <= Len(front)) /\ j - Len(front) = i
    BY <1>6
  <2> HIDE DEF j
  <2>2. field[j] = data[i]
    BY <1>5, <2>1
  <2> QED
    BY <2>2 DEF j
<1> QED
  BY <1>1, <1>3, <1>5, <1>6, <1>8, <1>9, <1>10 DEF number, size

(* The tag of a field of bytes. *)
BytesTag(t) == t \in Bytes /\ t % 8 = 2

(* The data stand behind the tag and their number. *)
Holds(message, start, data) ==
  LET first == start + 1 + VarintSize(Len(data))
  IN /\ ReadVarint(message, start + 1) = [val |-> Len(data), pos |-> first]
     /\ first \in Nat /\ first + Len(data) <= Len(message) + 1
     /\ SkipValue(message, start) = first + Len(data)
     /\ \A i \in 1..Len(data) : message[first + i - 1] = data[i]

(* A field of bytes is read where it stands, up to its end. *)
LEMMA BytesFieldRead ==
  ASSUME NEW t, NEW data \in Seq(Bytes), NEW message \in Seq(Bytes), NEW start \in Nat \ {0},
         BytesTag(t), Uint64(Len(data)), Stands(message, start, BytesField(t, data))
  PROVE  /\ start \in 1..Len(message) /\ message[start] = t /\ WireType(message, start) = 2
         /\ SkipValue(message, start) = start + Len(BytesField(t, data))
         /\ Holds(message, start, data)
<1> DEFINE field == BytesField(t, data)
           number == WriteVarint(Len(data))
           size == VarintSize(Len(data))
           n == Len(data)
           l == Len(message)
           first == start + 1 + size
<1>1. /\ Len(field) = 1 + size + n /\ size \in 1..10 /\ field[1] = t
      /\ \A i \in 1..size : field[1 + i] = number[i]
      /\ \A i \in 1..n : field[1 + size + i] = data[i]
  BY BytesFieldShape DEF BytesTag
<1>2. start + Len(field) - 1 <= l /\ \A i \in 1..Len(field) : message[start + i - 1] = field[i]
  BY DEF Stands
<1>3. n \in Nat /\ l \in Nat
  BY LenProperties
<1>4. ReadVarint(message, start + 1) = [val |-> n, pos |-> first]
  <2>1. start + 1 \in Nat \ {0} /\ (start + 1) + size - 1 <= l
    <3>1. size \in Nat /\ n \in Nat /\ l \in Nat /\ Len(field) = 1 + size + n /\ start + Len(field) - 1 <= l
      BY <1>1, <1>2, <1>3
    <3> HIDE DEF size, n, l, field
    <3> QED
      BY <3>1
  <2>2. ASSUME NEW i \in 1..size PROVE message[(start + 1) + i - 1] = number[i]
    <3>1. 1 + i \in 1..Len(field) /\ start + (1 + i) - 1 = (start + 1) + i - 1
      BY <1>1, <1>3
    <3> QED
      BY <1>1, <1>2, <3>1
  <2>3. ReadVarint(message, start + 1) = [val |-> n, pos |-> (start + 1) + size]
    BY <1>3, <2>1, <2>2, VarintReadBack
  <2> QED
    BY <2>3
<1> HIDE DEF field, number, size, n, l
<1>5. /\ start \in 1..l /\ first \in Nat /\ first + n <= l + 1 /\ first + n = start + Len(field)
      /\ start + 1 - 1 = start /\ 1 \in 1..Len(field)
  BY <1>1, <1>2, <1>3
<1>6. message[start] = t
  BY <1>1, <1>2, <1>5
<1>7. WireType(message, start) = 2
  BY <1>6 DEF WireType, BytesTag
<1> HIDE DEF first
<1>8. SkipValue(message, start) = first + n
  BY <1>4, <1>7 DEF SkipValue
<1>9. ASSUME NEW i \in 1..n PROVE message[first + i - 1] = data[i]
  <2> DEFINE j == 1 + size + i
  <2>1. j \in 1..Len(field) /\ start + j - 1 = first + i - 1
    BY <1>1, <1>3 DEF first
  <2>2. field[j] = data[i]
    BY <1>1
  <2> HIDE DEF j
  <2> QED
    BY <1>2, <2>1, <2>2
<1> QED
  BY <1>4, <1>5, <1>6, <1>7, <1>8, <1>9 DEF Holds, l, n, first, size, field

(* The id is read where its field stands. *)
LEMMA IdRead ==
  ASSUME NEW id \in Seq(Bytes), Uint64(Len(id)), NEW message \in Seq(Bytes), NEW start \in Nat \ {0},
         Stands(message, start, IdField(id))
  PROVE  /\ start \in 1..Len(message) /\ KnownType(message, start)
         /\ HoldsId(message, start) /\ IdAt(message, start) = id
<1> DEFINE n == Len(id)
           l == Len(message)
           first == start + 1 + VarintSize(n)
<1>1. BytesTag(10) /\ 10 \div 8 = 1 /\ Stands(message, start, BytesField(10, id))
  BY DEF Bytes, IdField, BytesTag
<1>2. /\ start \in 1..l /\ message[start] = 10 /\ WireType(message, start) = 2
      /\ ReadVarint(message, start + 1) = [val |-> n, pos |-> first]
      /\ first \in Nat /\ first + n <= l + 1
      /\ SkipValue(message, start) = first + n
      /\ \A i \in 1..n : message[first + i - 1] = id[i]
  <2>1. /\ start \in 1..Len(message) /\ message[start] = 10 /\ WireType(message, start) = 2
        /\ Holds(message, start, id)
    BY <1>1, BytesFieldRead
  <2> QED
    BY <2>1 DEF Holds
<1>3. n \in Nat /\ l \in Nat /\ \A i \in 1..n : id[i] \in Bytes
  BY LenProperties, ElementOfSeq
<1> HIDE DEF n, l, first
<1>4. HoldsId(message, start) /\ KnownType(message, start)
  BY <1>1, <1>2 DEF HoldsId, KnownType, l
<1>5. IdAt(message, start) = SubSeq(message, first, first + n - 1)
  <2> DEFINE length == ReadVarint(message, start + 1)
  <2>1. IdAt(message, start) = SubSeq(message, length.pos, length.pos + length.val - 1)
    BY DEF IdAt
  <2>2. length.pos = first /\ length.val = n
    BY <1>2
  <2> HIDE DEF length
  <2> QED
    BY <2>1, <2>2
<1>6. SubSeq(message, first, first + n - 1) = id
  <2> DEFINE s == SubSeq(message, first, first + n - 1)
             last == first + n - 1
  <2>1. first \in Int /\ last \in Int /\ last - first + 1 = n /\ (first <= last <=> n # 0)
    BY <1>2, <1>3
  <2>2. ASSUME NEW i \in first..last PROVE message[i] \in Bytes
    <3>1. i - first + 1 \in 1..n /\ first + (i - first + 1) - 1 = i
      BY <1>2, <1>3
    <3>2. message[i] = id[i - first + 1]
      BY <1>2, <3>1
    <3> QED
      BY <1>3, <3>1, <3>2
  <2> HIDE DEF last
  <2>3. /\ s \in Seq(Bytes) /\ Len(s) = IF first <= last THEN last - first + 1 ELSE 0
        /\ \A i \in 1..(last - first + 1) : s[i] = message[first + i - 1]
    BY <2>1, <2>2, SubSeqProperties DEF last
  <2> HIDE DEF s
  <2>4. Len(s) = n /\ \A i \in 1..n : s[i] = id[i]
    BY <1>2, <1>3, <2>1, <2>3
  <2>5. s = [i \in 1..n |-> s[i]] /\ id = [i \in 1..n |-> id[i]]
    BY <2>3, <2>4, SeqDef, LenProperties DEF n
  <2> QED
    BY <2>4, <2>5 DEF s
<1> QED
  BY <1>2, <1>4, <1>5, <1>6 DEF l

(* What stands in a message stands in it when more follows; its first part
   stands at 1, its second behind the first. *)
LEMMA StandsInConcat ==
  ASSUME NEW front \in Seq(Bytes), NEW back \in Seq(Bytes)
  PROVE  LET message == front \o back
         IN /\ message \in Seq(Bytes) /\ Len(front) + 1 \in Nat \ {0}
            /\ Stands(message, 1, front) /\ Stands(message, Len(front) + 1, back)
            /\ \A field \in Seq(Bytes), start \in Nat \ {0} :
                 Stands(front, start, field) => Stands(message, start, field)
<1> DEFINE message == front \o back
<1>1. front \in Seq(Bytes) /\ back \in Seq(Bytes)
  OBVIOUS
<1>2. /\ message \in Seq(Bytes) /\ Len(message) = Len(front) + Len(back)
      /\ \A i \in 1..(Len(front) + Len(back)) :
           message[i] = IF i <= Len(front) THEN front[i] ELSE back[i - Len(front)]
  BY <1>1, ConcatProperties, Zenon
<1>3. Len(front) \in Nat /\ Len(back) \in Nat
  BY LenProperties
<1> HIDE DEF message
<1>4. \A i \in 1..Len(front) : message[i] = front[i]
  <2> TAKE i \in 1..Len(front)
  <2>1. i \in 1..(Len(front) + Len(back)) /\ i <= Len(front)
    BY <1>3
  <2> QED
    BY <1>2, <2>1
<1>5. Stands(message, 1, front)
  <2>1. \A i \in 1..Len(front) : 1 + i - 1 = i
    BY <1>3
  <2>2. 1 + Len(front) - 1 <= Len(message)
    BY <1>2, <1>3
  <2> QED
    BY <1>4, <2>1, <2>2 DEF Stands
<1>6. Stands(message, Len(front) + 1, back)
  <2>1. ASSUME NEW i \in 1..Len(back) PROVE message[(Len(front) + 1) + i - 1] = back[i]
    <3> DEFINE j == (Len(front) + 1) + i - 1
    <3>1. j \in 1..(Len(front) + Len(back)) /\ ~(j <= Len(front)) /\ j - Len(front) = i
      BY <1>3
    <3> HIDE DEF j
    <3>2. message[j] = back[i]
      BY <1>2, <3>1
    <3> QED
      BY <3>2 DEF j
  <2>2. (Len(front) + 1) + Len(back) - 1 <= Len(message)
    BY <1>2, <1>3
  <2> QED
    BY <2>1, <2>2 DEF Stands
<1>7. ASSUME NEW field \in Seq(Bytes), NEW start \in Nat \ {0}, Stands(front, start, field)
      PROVE  Stands(message, start, field)
  <2>1. Len(field) \in Nat
    BY LenProperties
  <2>2. start + Len(field) - 1 <= Len(front) /\ \A i \in 1..Len(field) : front[start + i - 1] = field[i]
    BY <1>7 DEF Stands
  <2>3. ASSUME NEW i \in 1..Len(field) PROVE message[start + i - 1] = field[i]
    <3> DEFINE j == start + i - 1
    <3>1. j \in 1..Len(front)
      BY <1>3, <2>1, <2>2
    <3>2. front[j] = field[i]
      BY <2>2
    <3> HIDE DEF j
    <3>3. message[j] = field[i]
      BY <1>4, <3>1, <3>2
    <3> QED
      BY <3>3 DEF j
  <2>4. start + Len(field) - 1 <= Len(message)
    BY <1>2, <1>3, <2>1, <2>2
  <2> QED
    BY <2>3, <2>4 DEF Stands
<1>8. Len(front) + 1 \in Nat \ {0}
  BY <1>3
<1> QED
  BY <1>2, <1>5, <1>6, <1>7, <1>8 DEF message

LEMMA WireFieldBytes ==
  ASSUME NEW f, IsField(f)
  PROVE  WireField(f) \in Seq(Bytes)
<1>1. f.tag \in Bytes
  BY DEF IsField, Bytes
<1>2. CASE f.tag % 8 = 2
  BY <1>1, <1>2, BytesFieldShape DEF IsField, WireField
<1>3. CASE f.tag % 8 # 2
  <2> DEFINE content == IF f.tag % 8 = 0 THEN WriteVarint(f.number) ELSE f.data
  <2>1. content \in Seq(Bytes) /\ <<f.tag>> \in Seq(Bytes)
    BY <1>1, <1>3, VarintShape DEF IsField
  <2>2. WireField(f) = <<f.tag>> \o content
    BY <1>3 DEF WireField
  <2> HIDE DEF content
  <2> QED
    BY <2>1, <2>2, StandsInConcat
<1> QED
  BY <1>2, <1>3

(* A field before the id is skipped where it stands, and not taken for it. *)
LEMMA FieldSkipped ==
  ASSUME NEW f, IsField(f), NEW message \in Seq(Bytes), NEW start \in Nat \ {0},
         Stands(message, start, WireField(f))
  PROVE  /\ start \in 1..Len(message) /\ KnownType(message, start) /\ ~HoldsId(message, start)
         /\ SkipValue(message, start) = start + Len(WireField(f))
<1>1. f.tag \in Bytes /\ f.tag % 8 \in {0, 1, 2, 5} /\ (f.tag % 8 = 2 => f.tag \div 8 # 1)
  <2>1. f.tag \in 0..127 /\ f.tag # 10 /\ f.tag % 8 \in {0, 1, 2, 5}
    BY DEF IsField
  <2> DEFINE t == f.tag
  <2> HIDE DEF t
  <2>2. t \in 0..127 /\ t # 10 /\ t % 8 \in {0, 1, 2, 5}
    BY <2>1 DEF t
  <2>3. t \in 0..255 /\ (t % 8 = 2 => t \div 8 # 1)
    BY <2>2
  <2> QED
    BY <2>1, <2>3 DEF Bytes, t
<1>2. CASE f.tag % 8 = 2
  <2>1. f.data \in Seq(Bytes) /\ Uint64(Len(f.data)) /\ WireField(f) = BytesField(f.tag, f.data)
    BY <1>2 DEF IsField, WireField
  <2>2. /\ start \in 1..Len(message) /\ message[start] = f.tag /\ WireType(message, start) = 2
        /\ SkipValue(message, start) = start + Len(WireField(f))
    <3> DEFINE t == f.tag
               data == f.data
    <3>1. /\ BytesTag(t) /\ data \in Seq(Bytes) /\ Uint64(Len(data))
          /\ WireField(f) = BytesField(t, data) /\ Stands(message, start, BytesField(t, data))
      BY <1>1, <1>2, <2>1 DEF BytesTag
    <3> HIDE DEF t, data
    <3>2. /\ start \in 1..Len(message) /\ message[start] = t /\ WireType(message, start) = 2
          /\ SkipValue(message, start) = start + Len(BytesField(t, data))
      BY <3>1, BytesFieldRead
    <3> QED
      BY <3>1, <3>2 DEF t
  <2> QED
    BY <1>1, <1>2, <2>2 DEF KnownType, HoldsId
<1>3. CASE f.tag % 8 # 2
  <2> DEFINE tag == <<f.tag>>
             content == IF f.tag % 8 = 0 THEN WriteVarint(f.number) ELSE f.data
             field == tag \o content
  <2>1. WireField(f) = field
    BY <1>3 DEF WireField
  <2>2. tag \in Seq(Bytes) /\ Len(tag) = 1 /\ tag[1] = f.tag
    BY <1>1
  <2>3. /\ content \in Seq(Bytes)
        /\ f.tag % 8 = 0 => content = WriteVarint(f.number) /\ Uint64(f.number)
        /\ f.tag % 8 = 1 => Len(content) = 8
        /\ f.tag % 8 = 5 => Len(content) = 4
    BY <1>1, <1>3, VarintShape DEF IsField
  <2> HIDE DEF tag, content
  <2>4. /\ Len(field) = Len(tag) + Len(content)
        /\ Stands(field, 1, tag) /\ Stands(field, Len(tag) + 1, content)
    <3>1. tag \in Seq(Bytes) /\ content \in Seq(Bytes)
      BY <2>2, <2>3
    <3>2. Len(field) = Len(tag) + Len(content)
      BY <3>1, ConcatProperties, Zenon
    <3> QED
      BY <3>1, <3>2, StandsInConcat
  <2> HIDE DEF field
  <2>5. Len(content) \in Nat /\ Len(message) \in Nat /\ Len(field) = 1 + Len(content)
    BY <2>2, <2>3, <2>4, LenProperties
  <2>6. start + Len(field) - 1 <= Len(message) /\ \A i \in 1..Len(field) : message[start + i - 1] = field[i]
    BY <2>1 DEF Stands
  <2>7. start \in 1..Len(message) /\ message[start] = f.tag
    <3>1. field[1] = f.tag
      <4>1. 1 \in 1..Len(tag) /\ 1 + 1 - 1 = 1
        BY <2>2
      <4> QED
        BY <2>2, <2>4, <4>1 DEF Stands
    <3>2. 1 \in 1..Len(field) /\ start + 1 - 1 = start /\ start \in 1..Len(message)
      BY <2>5, <2>6
    <3> QED
      BY <2>6, <3>1, <3>2
  <2>8. \A i \in 1..Len(content) : message[(start + 1) + i - 1] = content[i]
    <3> TAKE i \in 1..Len(content)
    <3>1. field[1 + i] = content[i]
      <4>1. (Len(tag) + 1) + i - 1 = 1 + i
        BY <2>2, <2>5
      <4> QED
        BY <2>4, <4>1 DEF Stands
    <3>2. 1 + i \in 1..Len(field) /\ start + (1 + i) - 1 = (start + 1) + i - 1
      BY <2>5
    <3> QED
      BY <2>6, <3>1, <3>2
  <2>9. WireType(message, start) = f.tag % 8
    BY <2>7 DEF WireType
  <2>10. SkipValue(message, start) = start + Len(field)
    <3>1. CASE f.tag % 8 = 0
      <4> DEFINE size == VarintSize(f.number)
      <4>1. content = WriteVarint(f.number) /\ Uint64(f.number) /\ Len(content) = size /\ size \in Nat
        BY <2>3, <2>5, <3>1, VarintShape
      <4>2. start + 1 \in Nat \ {0} /\ (start + 1) + size - 1 <= Len(message)
        BY <2>5, <2>6, <4>1
      <4>3. \A i \in 1..size : message[(start + 1) + i - 1] = WriteVarint(f.number)[i]
        BY <2>8, <4>1
      <4>4. ReadVarint(message, start + 1) = [val |-> f.number, pos |-> (start + 1) + size]
        BY <2>5, <4>1, <4>2, <4>3, VarintReadBack
      <4>5. SkipValue(message, start) = (start + 1) + size
        BY <2>9, <3>1, <4>4 DEF SkipValue
      <4> HIDE DEF size
      <4> QED
        BY <2>5, <4>1, <4>5
    <3>2. CASE f.tag % 8 = 1
      <4>1. SkipValue(message, start) = start + 9
        BY <2>9, <3>2 DEF SkipValue
      <4>2. Len(content) = 8
        BY <2>3, <3>2
      <4> QED
        BY <2>5, <4>1, <4>2
    <3>3. CASE f.tag % 8 = 5
      <4>1. SkipValue(message, start) = start + 5
        BY <2>9, <3>3 DEF SkipValue
      <4>2. Len(content) = 4
        BY <2>3, <3>3
      <4> QED
        BY <2>5, <4>1, <4>2
    <3> QED
      BY <1>1, <1>3, <3>1, <3>2, <3>3
  <2> QED
    BY <1>1, <1>3, <2>1, <2>7, <2>9, <2>10 DEF KnownType, HoldsId
<1> QED
  BY <1>2, <1>3

(* The message a call decodes and where the reader may be in it. *)
VisitorMessage(c) ==
  IF c.op = "own_visitor" THEN IdField(c.id) \o <<16>> \o WriteVarint(c.timestamp) ELSE ServerMessage(c)

LastStart(c) ==
  {p \in {Len(c.before) + 1} : /\ c.id = None /\ p \in 1..Len(ServerMessage(c))
                               /\ KnownType(ServerMessage(c), p)}

FieldStarts(c) ==
  IF c.op = "own_visitor" THEN {1}
  ELSE {c.starts[i] : i \in 1..(Len(c.fields) + 1)}
       \cup {SkipValue(ServerMessage(c), p) : p \in LastStart(c)}

IsVisitor(c) == c.op \in {"own_visitor", "server_visitor"}

(* The inductive invariant: the reader has decoded the message that was
   written and is where one of its fields starts. *)
VisitorInv ==
  IsVisitor(call) =>
    /\ pos # 0 => bytes = VisitorMessage(call) /\ pos \in FieldStarts(call)
    /\ VisitorIdSurvives

(* The own message and a server's are of bytes. *)
LEMMA OwnMessage ==
  ASSUME NEW c \in Calls, c.op = "own_visitor"
  PROVE  /\ VisitorMessage(c) \in Seq(Bytes) /\ Stands(VisitorMessage(c), 1, IdField(c.id))
         /\ c.id \in Seq(Bytes) /\ Uint64(Len(c.id))
<1>1. c.id \in Seq(Bytes) /\ Uint64(Len(c.id)) /\ Uint64(c.timestamp)
  BY CallsAssumption
<1> DEFINE field == IdField(c.id)
           tag == <<16>>
           time == WriteVarint(c.timestamp)
           front == field \o tag
           message == front \o time
<1>2. field \in Seq(Bytes) /\ tag \in Seq(Bytes) /\ time \in Seq(Bytes)
  <2>1. 10 \in Bytes /\ 16 \in Bytes
    BY DEF Bytes
  <2>2. field \in Seq(Bytes)
    BY <1>1, <2>1, BytesFieldShape DEF IdField
  <2>3. time \in Seq(Bytes)
    BY <1>1, VarintShape
  <2> QED
    BY <2>1, <2>2, <2>3
<1>3. VisitorMessage(c) = message
  BY DEF VisitorMessage
<1> HIDE DEF field, tag, time
<1>4. front \in Seq(Bytes) /\ Stands(front, 1, field)
  BY <1>2, StandsInConcat
<1> HIDE DEF front
<1>5. message \in Seq(Bytes) /\ Stands(message, 1, field)
  BY <1>2, <1>4, StandsInConcat
<1> QED
  BY <1>1, <1>3, <1>5 DEF field

LEMMA ServersMessage ==
  ASSUME NEW c \in Calls, c.op = "server_visitor"
  PROVE  /\ ServerMessage(c) \in Seq(Bytes)
         /\ c.id = None \/ (c.id \in Seq(Bytes) /\ Uint64(Len(c.id)))
         /\ c.id # None => /\ Len(c.before) + 1 \in Nat \ {0}
                           /\ Stands(ServerMessage(c), Len(c.before) + 1, IdField(c.id))
         /\ \A field \in Seq(Bytes), start \in Nat \ {0} :
              Stands(c.before, start, field) => Stands(ServerMessage(c), start, field)
<1>1. /\ c.id = None \/ (c.id \in Seq(Bytes) /\ Uint64(Len(c.id)))
      /\ c.before \in Seq(Bytes) /\ c.after \in Seq(Bytes)
  BY CallsAssumption
<1>2. CASE c.id = None
  <2>1. /\ c.before \o c.after \in Seq(Bytes)
        /\ \A field \in Seq(Bytes), start \in Nat \ {0} :
             Stands(c.before, start, field) => Stands(c.before \o c.after, start, field)
    BY <1>1, StandsInConcat
  <2> QED
    BY <1>1, <1>2, <2>1 DEF ServerMessage
<1>3. CASE c.id # None
  <2> DEFINE field == IdField(c.id)
             front == c.before \o field
             start == Len(c.before) + 1
             message == front \o c.after
  <2>1. field \in Seq(Bytes)
    <3>1. 10 \in Bytes
      BY DEF Bytes
    <3> QED
      BY <1>1, <1>3, <3>1, BytesFieldShape DEF IdField
  <2>2. ServerMessage(c) = message
    BY <1>3 DEF ServerMessage
  <2> HIDE DEF field
  <2>3. /\ front \in Seq(Bytes) /\ start \in Nat \ {0} /\ Stands(front, start, field)
        /\ \A g \in Seq(Bytes), q \in Nat \ {0} : Stands(c.before, q, g) => Stands(front, q, g)
    BY <1>1, <2>1, StandsInConcat
  <2> HIDE DEF front, start
  <2>4. /\ message \in Seq(Bytes) /\ Stands(message, start, field)
        /\ \A g \in Seq(Bytes), q \in Nat \ {0} : Stands(front, q, g) => Stands(message, q, g)
    BY <1>1, <2>1, <2>3, StandsInConcat
  <2> QED
    BY <1>1, <2>2, <2>3, <2>4 DEF field, start
<1> QED
  BY <1>2, <1>3

(* What the reader decodes of the text is the message. *)
LEMMA VisitorDecoded ==
  ASSUME call \in Calls, IsVisitor(call)
  PROVE  Decode(Unescape(VisitorText)) = VisitorMessage(call)
<1>1. CASE call.op = "own_visitor"
  <2>1. VisitorText = Encode(VisitorMessage(call), TRUE)
    BY <1>1 DEF VisitorText, EncodeVisitorData, VisitorMessage
  <2> QED
    BY <1>1, <2>1, OwnMessage, PlainMessage
<1>2. CASE call.op # "own_visitor"
  <2>1. call.op = "server_visitor"
    BY <1>2 DEF IsVisitor
  <2>2. VisitorText = Escape(Encode(ServerMessage(call), call.url_safe), call.escaped, call.lower)
    BY <1>2 DEF VisitorText
  <2>3. call.url_safe \in BOOLEAN /\ call.lower \in BOOLEAN
    BY <2>1, CallsAssumption
  <2>4. VisitorMessage(call) = ServerMessage(call)
    BY <1>2 DEF VisitorMessage
  <2> QED
    BY <2>1, <2>2, <2>3, <2>4, ServersMessage, EscapedMessage
<1> QED
  BY <1>1, <1>2

(* From every place the reader may be at, it goes on to one or takes the id. *)
LEMMA FieldsAhead ==
  ASSUME NEW c \in Calls, IsVisitor(c), NEW p \in FieldStarts(c)
  PROVE  LET message == VisitorMessage(c)
         IN /\ c.id # None => p \in 1..Len(message) /\ KnownType(message, p)
            /\ p \in 1..Len(message) =>
                 /\ HoldsId(message, p) => c.id # None /\ IdAt(message, p) = c.id
                 /\ ~HoldsId(message, p) /\ KnownType(message, p) => SkipValue(message, p) \in FieldStarts(c)
<1> DEFINE message == VisitorMessage(c)
<1>1. CASE c.op = "own_visitor"
  <2>1. p = 1
    BY <1>1 DEF FieldStarts
  <2>2. /\ p \in 1..Len(message) /\ KnownType(message, p)
        /\ HoldsId(message, p) /\ IdAt(message, p) = c.id
    BY <1>1, <2>1, OwnMessage, IdRead
  <2>3. c.id # None
    BY <1>1, OwnMessage, CallsAssumption
  <2> QED
    BY <2>1, <2>2, <2>3
<1>2. CASE c.op # "own_visitor"
  <2> DEFINE n == Len(c.fields)
             last == Len(c.before) + 1
             ends == {q \in {last} : c.id = None /\ q \in 1..Len(message) /\ KnownType(message, q)}
  <2>1. c.op = "server_visitor" /\ message = ServerMessage(c)
    BY <1>2 DEF IsVisitor, VisitorMessage
  <2>2. /\ n \in Nat /\ c.starts[n+1] = last
        /\ \A i \in 1..n : /\ IsField(c.fields[i]) /\ c.starts[i] \in Nat \ {0}
                           /\ c.starts[i+1] = c.starts[i] + Len(WireField(c.fields[i]))
                           /\ Stands(message, c.starts[i], WireField(c.fields[i]))
    <3>1. /\ n \in Nat /\ c.starts[n+1] = last
          /\ \A i \in 1..n : /\ IsField(c.fields[i]) /\ c.starts[i] \in Nat \ {0}
                             /\ c.starts[i+1] = c.starts[i] + Len(WireField(c.fields[i]))
                             /\ Stands(c.before, c.starts[i], WireField(c.fields[i]))
      BY <2>1, CallsAssumption DEF AreFields
    <3> QED
      BY <2>1, <3>1, ServersMessage, WireFieldBytes
  <2>3. FieldStarts(c) = {c.starts[i] : i \in 1..(n + 1)} \cup {SkipValue(message, q) : q \in ends}
    BY <1>2, <2>1 DEF FieldStarts, LastStart
  <2>4. message \in Seq(Bytes) /\ (c.id = None => Ends(message, last))
    BY <2>1, ServersMessage, CallsAssumption
  <2> HIDE DEF n, message
  <2>5. ASSUME NEW i \in 1..n, p = c.starts[i]
        PROVE  /\ p \in 1..Len(message) /\ KnownType(message, p) /\ ~HoldsId(message, p)
               /\ SkipValue(message, p) \in FieldStarts(c)
    <3>1. /\ p \in 1..Len(message) /\ KnownType(message, p) /\ ~HoldsId(message, p)
          /\ SkipValue(message, p) = c.starts[i+1]
      BY <2>2, <2>4, <2>5, FieldSkipped
    <3>2. i + 1 \in 1..(n + 1)
      BY <2>2
    <3> QED
      BY <2>3, <3>1, <3>2
  <2>6. CASE c.id # None /\ p = last
    <3>1. /\ p \in 1..Len(message) /\ KnownType(message, p)
          /\ HoldsId(message, p) /\ IdAt(message, p) = c.id
      BY <2>1, <2>4, <2>6, ServersMessage, IdRead
    <3> QED
      BY <2>6, <3>1 DEF message
  <2>7. CASE c.id = None /\ p = last
    <3>1. p \in 1..Len(message) /\ KnownType(message, p) => ~HoldsId(message, p)
      BY <2>4, <2>7 DEF Ends
    <3>2. p \in 1..Len(message) /\ HoldsId(message, p) => KnownType(message, p)
      BY DEF HoldsId, KnownType
    <3>3. p \in 1..Len(message) /\ KnownType(message, p) => SkipValue(message, p) \in FieldStarts(c)
      BY <2>3, <2>4, <2>7 DEF Ends
    <3> QED
      BY <2>7, <3>1, <3>2, <3>3 DEF message
  <2>8. CASE c.id = None /\ p > Len(message) /\ Len(message) \in Nat
    <3>1. p \notin 1..Len(message)
      BY <2>8
    <3> QED
      BY <2>8, <3>1 DEF message
  <2>9. (\E i \in 1..n : p = c.starts[i]) \/ p = last \/ (c.id = None /\ p > Len(message))
    <3>1. \A i \in 1..(n + 1) : i \in 1..n \/ i = n + 1
      BY <2>2
    <3>2. ASSUME p \in {SkipValue(message, q) : q \in ends} PROVE c.id = None /\ p > Len(message)
      <4>1. last \in ends /\ p = SkipValue(message, last)
        BY <3>2
      <4>2. c.id = None /\ last \in 1..Len(message) /\ KnownType(message, last)
        BY <4>1
      <4> QED
        BY <2>4, <4>1, <4>2 DEF Ends
    <3> QED
      BY <2>2, <2>3, <3>1, <3>2
  <2>10. Len(message) \in Nat
    BY <2>4, LenProperties
  <2> QED
    BY <2>5, <2>6, <2>7, <2>8, <2>9, <2>10 DEF message
<1> QED
  BY <1>1, <1>2

(* decode_visitor_data_id finds the id again, of any length and with any time,
   behind any fields of a server and however the text was escaped; in a
   message without an id it finds none. *)
THEOREM VisitorSurvives == Spec => []VisitorIdSurvives
<1> DEFINE Asked == call \in Calls
           Expected == IF call.id = None THEN << >> ELSE call.id
<1>1. Init => Asked /\ VisitorInv
  BY DEF Init, VisitorInv, VisitorIdSurvives
<1>2. Asked /\ VisitorInv /\ [Next]_vars => Asked' /\ VisitorInv'
  <2> SUFFICES ASSUME Asked, VisitorInv, [Next]_vars
               PROVE  Asked' /\ VisitorInv'
    OBVIOUS
  <2>1. CASE UNCHANGED vars
    BY <2>1 DEF vars, VisitorInv, VisitorIdSurvives, IsVisitor
  <2>2. CASE Next
    <3>1. answer = None /\ call' = call /\ Asked'
      BY <2>2 DEF Next
    <3>2. VisitorInv' <=>
            (IsVisitor(call) =>
               /\ pos' # 0 => bytes' = VisitorMessage(call) /\ pos' \in FieldStarts(call)
               /\ answer' # None => answer' = Expected)
      BY <3>1 DEF VisitorInv, VisitorIdSurvives, IsVisitor
    <3> SUFFICES ASSUME IsVisitor(call)
                 PROVE  /\ pos' # 0 => bytes' = VisitorMessage(call) /\ pos' \in FieldStarts(call)
                        /\ answer' # None => answer' = Expected
      BY <3>1, <3>2
    <3>3. pos # 0 => bytes = VisitorMessage(call) /\ pos \in FieldStarts(call)
      BY DEF VisitorInv
    <3>4. ReadText \/ TakeId \/ SkipField \/ NoField
      BY <2>2 DEF Next, AnswerAtOnce, DecodeText, DescrambleText, MakePlaceholder, ParseCreate, ParseBoth,
                  ReadVisitor, IsVisitor
    <3> DEFINE message == VisitorMessage(call)
    <3>5. CASE ReadText
      <4>1. bytes' = message /\ pos' = 1 /\ answer' = None
        BY <3>1, <3>5, VisitorDecoded DEF ReadText
      <4>2. 1 \in FieldStarts(call)
        <5>1. CASE call.op = "own_visitor"
          BY <5>1 DEF FieldStarts
        <5>2. CASE call.op # "own_visitor"
          BY <5>2, CallsAssumption DEF FieldStarts, IsVisitor, AreFields
        <5> QED
          BY <5>1, <5>2
      <4> QED
        BY <4>1, <4>2
    <3>6. CASE TakeId
      <4>1. pos \in 1..Len(bytes) /\ HoldsId(bytes, pos) /\ answer' = IdAt(bytes, pos) /\ pos' = pos /\ bytes' = bytes
        BY <3>6 DEF TakeId, AtField
      <4>2. pos # 0
        BY <4>1
      <4>3. call.id # None /\ IdAt(bytes, pos) = call.id
        BY <3>3, <4>1, <4>2, FieldsAhead
      <4> QED
        BY <3>3, <4>1, <4>3
    <3>7. CASE SkipField
      <4>1. /\ pos \in 1..Len(bytes) /\ ~HoldsId(bytes, pos) /\ KnownType(bytes, pos)
            /\ pos' = SkipValue(bytes, pos) /\ bytes' = bytes /\ answer' = None
        BY <3>1, <3>7 DEF SkipField, AtField
      <4>2. pos # 0
        BY <4>1
      <4>3. SkipValue(bytes, pos) \in FieldStarts(call)
        BY <3>3, <4>1, <4>2, FieldsAhead
      <4> QED
        BY <3>3, <4>1, <4>2, <4>3
    <3>8. CASE NoField
      <4>1. /\ pos # 0 /\ (pos \in 1..Len(bytes) => ~KnownType(bytes, pos))
            /\ answer' = << >> /\ pos' = pos /\ bytes' = bytes
        BY <3>8 DEF NoField, AtField
      <4>2. call.id = None
        BY <3>3, <4>1, FieldsAhead
      <4> QED
        BY <3>3, <4>1, <4>2
    <3> QED
      BY <3>4, <3>5, <3>6, <3>7, <3>8
  <2> QED
    BY <2>1, <2>2
<1>3. VisitorInv => VisitorIdSurvives
  BY DEF VisitorInv, VisitorIdSurvives, IsVisitor
<1> QED
  BY <1>1, <1>2, <1>3, PTL DEF Spec
=============================================================================
