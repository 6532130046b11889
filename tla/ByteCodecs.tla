------------------------------ MODULE ByteCodecs ------------------------------
(***************************************************************************)
(* The byte formats of the library: base64 (base64.cpp), the scrambled     *)
(* challenge (challenge.cpp) and the masked packet of a placeholder token  *)
(* (placeholder.cpp).  Texts are sequences of character codes.             *)
(***************************************************************************)
EXTENDS Subsequences

CONSTANT None   \* the error of an operation

Bytes == 0..255
Percent == 37
Dot == 46
Eq == 61

STANDARD_CHARS ==
  [s \in 0..63 |-> IF s < 26 THEN s + 65 ELSE IF s < 52 THEN s + 71
                   ELSE IF s < 62 THEN s - 4 ELSE IF s = 62 THEN 43 ELSE 47]

UrlSafe(c) == IF c = 43 THEN 45 ELSE IF c = 47 THEN 95 ELSE c

(* Character k of a text, or byte k of data, stands at Place of Group, of
   four characters or three bytes. *)
Group(k, size) == (k - 1) \div size
Place(k, size) == ((k - 1) % size) + 1

Sextet(triple, place) == (triple \div <<262144, 4096, 64, 1>>[place]) % 64

Octet(triple, place) == (triple \div <<65536, 256, 1>>[place]) % 256

(* Group g of the data, with zeros for what is missing. *)
DataTriple(data, g) ==
  LET at(i) == IF i <= Len(data) THEN data[i] ELSE 0
  IN at(3*g + 1) * 65536 + at(3*g + 2) * 256 + at(3*g + 3)

(* base64::encode.  What is missing in the last group is '=', and left out of
   the url-safe form. *)
Encode(data, url_safe) ==
  LET size == 4 * ((Len(data) + 2) \div 3)
      pad == (3 - (Len(data) % 3)) % 3
      char(k) == STANDARD_CHARS[Sextet(DataTriple(data, Group(k, 4)), Place(k, 4))]
  IN IF url_safe THEN [k \in 1..(size - pad) |-> UrlSafe(char(k))]
     ELSE [k \in 1..size |-> IF k > size - pad THEN Eq ELSE char(k)]

DEC == [c \in Bytes |-> IF \E s \in 0..63 : STANDARD_CHARS[s] = c
                        THEN CHOOSE s \in 0..63 : STANDARD_CHARS[s] = c ELSE -1]

Normal(c) == IF c = 45 THEN 43 ELSE IF c = 95 THEN 47 ELSE IF c = Dot THEN Eq ELSE c

(* The text in groups of four: url-safe characters mapped back, padded. *)
Padded(input) ==
  [k \in 1..(4 * ((Len(input) + 3) \div 4)) |-> IF k <= Len(input) THEN Normal(input[k]) ELSE Eq]

(* Group g of the text, with zeros for what is not in the alphabet. *)
TextTriple(s, g) ==
  LET val(i) == IF DEC[s[4*g + i]] >= 0 THEN DEC[s[4*g + i]] ELSE 0
  IN val(1) * 262144 + val(2) * 4096 + val(3) * 64 + val(4)

(* Mutant: only the last character is looked at for padding. *)
LastPadded(s, g, place) == place = 3 /\ s[4*g + 4] = Eq

(* The padding says that the byte is missing. *)
Missing(s, g, place) == place > 1 /\ s[4*g + place + 1] = Eq

(* base64::decode stops at a group without two characters of the alphabet. *)
Reached(s, g) == \A h \in 0..g : DEC[s[4*h + 1]] >= 0 /\ DEC[s[4*h + 2]] >= 0

Decode(input) ==
  LET s == Padded(input)
      bytes == [k \in 1..(3 * (Len(s) \div 4)) |-> Octet(TextTriple(s, Group(k, 3)), Place(k, 3))]
  IN Picked(bytes, {k \in DOMAIN bytes : /\ Reached(s, Group(k, 3))
                                         /\ ~Missing(s, Group(k, 3), Place(k, 3))})

(* descramble *)
Descramble(encoded) ==
  LET bytes == Decode(encoded) IN [i \in DOMAIN bytes |-> (bytes[i] + 97) % 256]
-----------------------------------------------------------------------------
(* Bitwise exclusive or of two bytes. *)
Bit(b, weight) == (b \div weight) % 2

Xor(a, b) ==
  LET bit(w) == w * ((Bit(a, w) + Bit(b, w)) % 2)
  IN bit(1) + bit(2) + bit(4) + bit(8) + bit(16) + bit(32) + bit(64) + bit(128)

Clock(timestamp) ==
  [k \in 1..4 |-> (timestamp \div <<16777216, 65536, 256, 1>>[k]) % 256]

(* Mutant: the identifier may fill the whole length byte. *)
PlaceholderLimit256(identifier) == Len(identifier) <= 256

PlaceholderFits(identifier) == Len(identifier) <= 118

(* generate_placeholder_token: everything after the two keys is masked with
   them in turn. *)
GeneratePlaceholderToken(identifier, client_state, timestamp, keys) ==
  IF ~PlaceholderFits(identifier) THEN None
  ELSE LET payload == keys \o <<0, client_state>> \o Clock(timestamp) \o identifier
           masked == [i \in DOMAIN payload |->
                        IF i <= 2 THEN payload[i] ELSE Xor(payload[i], keys[Place(i, 2)])]
       IN Encode(<<34, Len(payload) % 256>> \o masked, TRUE)
=============================================================================
