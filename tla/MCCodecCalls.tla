----------------------------- MODULE MCCodecCalls -----------------------------
(* Instances of CodecCalls for TLC. *)
EXTENDS CodecCalls

(* Bytes whose sextets reach both ends of the alphabet and its last two
   characters. *)
MCBytes == {0, 159, 248, 255}

Datas == UNION {[1..n -> MCBytes] : n \in 0..4}
Long(n) == [i \in 1..n |-> (i * 37) % 256]

Decodes ==
  UNION {{[op |-> op, data |-> d, style |-> s, cut |-> k] :
            k \in 0..Len(Encode(d, s = "url_safe"))} :
           op \in {"decode", "descramble"}, d \in Datas, s \in {"standard", "url_safe", "dotted"}}

Ids == {<< >>, <<65>>, <<0, 255>>, Long(11), Long(127), Long(128), Long(300)}
Times == {0, 127, 128, 1760000000}

(* Other fields: a number, a long number, 4 bytes, 8 bytes, bytes. *)
Fields == {[tag |-> 16, number |-> 5], [tag |-> 8, number |-> 200], [tag |-> 29, data |-> <<10, 1, 65, 0>>],
           [tag |-> 25, data |-> <<10, 1, 65, 10, 1, 65, 0, 0>>], [tag |-> 18, data |-> <<10, 1, 65>>]}

(* A message of at most two fields before the id. *)
Server(fields, id, after, url_safe, escaped, lower) ==
  LET n == Len(fields)
      written == [i \in 1..n |-> WireField(fields[i])]
      first == IF n = 0 THEN << >> ELSE written[1]
      before == IF n = 2 THEN first \o written[2] ELSE first
  IN [op |-> "server_visitor", fields |-> fields, before |-> before,
      starts |-> [i \in 1..(n+1) |-> IF i = 1 THEN 1 ELSE IF i = n + 1 THEN Len(before) + 1
                                     ELSE Len(first) + 1],
      id |-> id, after |-> after, url_safe |-> url_safe, escaped |-> escaped, lower |-> lower]

(* encodeURIComponent of base64, and one that escapes more. *)
Escaping == {{}, {Eq, 43, 47}, {Eq, 65, 108}}

(* What follows the fields of a message without an id: nothing, an unknown
   type, a number without a byte, an id and another field longer than the
   message. *)
Tails == {<< >>, <<11, 10, 1, 65>>, <<16>>, <<10, 200>>, <<18, 200, 1, 65>>}

Visitors ==
  {[op |-> "own_visitor", id |-> i, timestamp |-> t] : i \in Ids, t \in Times}
  \cup {Server(f, i, << >>, u, e, TRUE) :
          f \in (Fields \X Fields) \cup {<<x>> : x \in Fields}, i \in {<< >>, Long(11)},
          u \in BOOLEAN, e \in Escaping}
  \cup {Server(f, i, a, u, {Eq, 43, 47}, l) :
          f \in {<<x>> : x \in Fields} \cup {<< >>}, a \in {<<11, 10, 1, 65>>, <<16, 5>>},
          i \in {<<65>>, <<0, 255>>, Long(128)}, u \in BOOLEAN, l \in BOOLEAN}
  \cup {Server(f, None, t, FALSE, {Eq}, FALSE) :
          f \in {<<x>> : x \in Fields} \cup {<< >>}, t \in Tails}

Placeholders ==
  {[op |-> "placeholder", identifier |-> Long(n), client_state |-> 1, timestamp |-> t, keys |-> k] :
     n \in {0, 1, 11, 117, 118, 119, 250}, t \in Times, k \in {<<0, 255>>, <<170, 3>>}}

Url == [scheme |-> "http", slashes |-> TRUE, rest |-> "host"]
Relative == [Url EXCEPT !.scheme = "", !.rest = "mirror"]
SourceMap == [Relative EXCEPT !.rest = "# comment"]
Code == [scheme |-> "", slashes |-> FALSE, rest |-> "code"]

Items == {[str |-> t] : t \in {Url, Relative, SourceMap, Code, Empty}} \cup {Null}
Arrays == {[arr |-> a] : a \in UNION {[1..n -> Items] : n \in 0..2}} \cup {Null}
Fixed == {[str |-> Code], Null}

Inner(e, r, p, g) == [arr |-> <<Null, e, r, Null, p, g>>]

Bodies ==
  {[arr |-> <<Inner(e, r, [str |-> Code], g)>>] : e \in Arrays, r \in Arrays, g \in Fixed}
  \cup {[arr |-> <<Null, [str |-> Code, json |-> Inner(e, e, p, [str |-> Empty])]>>] :
          e \in Arrays, p \in Fixed}
  \cup {Null, [arr |-> << >>], [arr |-> <<Null>>], [arr |-> <<Null, [str |-> Code]>>],
        [arr |-> <<[arr |-> <<Null>>]>>]}

Texts == {Url, Relative, SourceMap, Code, Empty}

MCCalls ==
  Decodes \cup Visitors \cup Placeholders \cup {[op |-> "create", body |-> b] : b \in Bodies}
  \cup {[op |-> "both", url |-> u, program |-> p, global_name |-> g, snake |-> s, trusted |-> t] :
          u \in Texts, p \in {Code, Empty}, g \in {Code, Empty}, s \in BOOLEAN, t \in BOOLEAN}
=============================================================================
