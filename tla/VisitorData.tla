----------------------------- MODULE VisitorData -----------------------------
(***************************************************************************)
(* visitor_data (innertube_messages.cpp): a protobuf message of an id and  *)
(* a time in base64, as the library writes it, and what its reader of a    *)
(* server's is made of.  A position is that of the next byte to read.      *)
(***************************************************************************)
EXTENDS ByteCodecs

(* What is left of val before each byte of it: 64 bits are ten bytes. *)
Shifted(val) ==
  LET rest[i \in 1..10] == IF i = 1 THEN val ELSE rest[i-1] \div 128 IN rest

Uint64(val) == val \in Nat /\ Shifted(val)[10] < 2

VarintSize(val) ==
  CHOOSE n \in 1..10 : /\ n = 10 \/ Shifted(val)[n] < 128
                       /\ \A i \in 1..(n-1) : Shifted(val)[i] >= 128

(* Seven bits a byte, the lowest first, and a mark on all but the last. *)
WriteVarint(val) ==
  [i \in 1..VarintSize(val) |-> (Shifted(val)[i] % 128) + (IF i < VarintSize(val) THEN 128 ELSE 0)]

(* Mutant: every number ends behind its first byte. *)
OneByteEnd(data, pos) == IF pos > Len(data) THEN pos ELSE pos + 1

(* Where a number at pos ends: behind its first byte without a mark. *)
VarintEnd(data, pos) ==
  LET last == {i \in pos..Len(data) : data[i] < 128}
  IN IF last = {} THEN Len(data) + 1 ELSE 1 + CHOOSE i \in last : \A j \in last : i <= j

(* Its value, the accumulator of 64 bits taken wide enough for it. *)
ReadVarint(data, pos) ==
  LET end == VarintEnd(data, pos)
      value[i \in pos..end] == IF i = end THEN 0 ELSE (data[i] % 128) + 128 * value[i+1]
  IN [val |-> value[pos], pos |-> end]

(* A field of bytes, behind its tag and their number. *)
BytesField(tag, data) == <<tag>> \o WriteVarint(Len(data)) \o data

(* encode_visitor_data: field 1 the id, field 2 the time. *)
IdField(id) == BytesField(10, id)

EncodeVisitorData(id, timestamp) ==
  Encode(IdField(id) \o <<16>> \o WriteVarint(timestamp), TRUE)
-----------------------------------------------------------------------------
Hex(c) == IF c \in 48..57 THEN c - 48 ELSE IF c \in 65..70 THEN c - 55
          ELSE IF c \in 97..102 THEN c - 87 ELSE -1

(* %XY is one character; a % without two hex digits stands for itself. *)
Escapes(text) ==
  {i \in 1..(Len(text) - 2) : text[i] = Percent /\ Hex(text[i+1]) >= 0 /\ Hex(text[i+2]) >= 0}

Unescape(text) ==
  LET escapes == Escapes(text)
  IN Picked([k \in DOMAIN text |-> IF k \in escapes THEN 16 * Hex(text[k+1]) + Hex(text[k+2])
                                   ELSE text[k]],
            {k \in DOMAIN text : k - 1 \notin escapes /\ k - 2 \notin escapes})

(* The field at pos by its tag: a number, 8 bytes, a length and as many
   bytes, or 4 bytes.  Nothing else is known. *)
WireType(bytes, pos) == bytes[pos] % 8

KnownType(bytes, pos) == WireType(bytes, pos) \in {0, 1, 2, 5}

(* Behind the value of the field at pos. *)
SkipValue(bytes, pos) ==
  LET number == ReadVarint(bytes, pos + 1)
  IN CASE WireType(bytes, pos) = 0 -> number.pos
       [] WireType(bytes, pos) = 1 -> pos + 9
       [] WireType(bytes, pos) = 2 -> number.pos + number.val
       [] WireType(bytes, pos) = 5 -> pos + 5

(* Field 1 as bytes that fit, and these bytes. *)
HoldsId(bytes, pos) ==
  /\ WireType(bytes, pos) = 2 /\ bytes[pos] \div 8 = 1
  /\ SkipValue(bytes, pos) <= Len(bytes) + 1

IdAt(bytes, pos) ==
  LET length == ReadVarint(bytes, pos + 1)
  IN SubSeq(bytes, length.pos, length.pos + length.val - 1)
=============================================================================
