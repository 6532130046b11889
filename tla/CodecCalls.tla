------------------------------ MODULE CodecCalls ------------------------------
(***************************************************************************)
(* One call of base64, of the placeholder, of the visitor data or of a     *)
(* parser of challenges, for the properties that tie each to what the      *)
(* other side wrote or reads.                                              *)
(***************************************************************************)
EXTENDS VisitorData, ChallengeParsing

CONSTANT Calls   \* the calls considered: records with the field op

(* A JSON value, down to its elements. *)
IsValue(v) ==
  /\ IsString(v) => v.str \in Text
  /\ IsArray(v) => IsSeq(v.arr)

AllValues(v) == IsValue(v) /\ (IsArray(v) => \A i \in DOMAIN v.arr : IsValue(v.arr[i]))

(* A body of Create, whose challenge stands in it or scrambled in a string. *)
IsBody(v) ==
  /\ AllValues(v)
  /\ IsArray(v) /\ v.arr # << >> =>
       LET inner == InnerArray(v.arr)
       IN AllValues(inner) /\ (IsArray(inner) => \A i \in DOMAIN inner.arr : AllValues(inner.arr[i]))

(* Percent-encoding of some characters, by either spelling of the digits. *)
HexDigit(d, lower) == IF d < 10 THEN d + 48 ELSE IF lower THEN d + 87 ELSE d + 55

Escaped(c, lower) == <<Percent, HexDigit(c \div 16, lower), HexDigit(c % 16, lower)>>

Escape(text, escaped, lower) ==
  LET threes == [k \in 1..(3 * Len(text)) |->
                   LET c == text[Group(k, 3) + 1]
                   IN IF c \in escaped THEN Escaped(c, lower)[Place(k, 3)] ELSE c]
  IN Picked(threes, {k \in DOMAIN threes : Place(k, 3) = 1 \/ text[Group(k, 3) + 1] \in escaped})

(* A field a server may put before the id, of a tag in one byte: a number,
   8 bytes, 4 bytes, or bytes behind their number. *)
IsField(f) ==
  /\ f.tag \in 0..127 \ {10}
  /\ \/ f.tag % 8 = 0 /\ Uint64(f.number)
     \/ /\ f.data \in Seq(Bytes)
        /\ \/ f.tag % 8 = 1 /\ Len(f.data) = 8
           \/ f.tag % 8 = 5 /\ Len(f.data) = 4
           \/ f.tag % 8 = 2 /\ Uint64(Len(f.data))

WireField(f) ==
  IF f.tag % 8 = 2 THEN BytesField(f.tag, f.data)
  ELSE <<f.tag>> \o (IF f.tag % 8 = 0 THEN WriteVarint(f.number) ELSE f.data)

(* The message of a server: fields, the id if it sends one, and the rest. *)
ServerMessage(c) ==
  IF c.id = None THEN c.before \o c.after ELSE c.before \o IdField(c.id) \o c.after

Stands(message, start, field) ==
  /\ start + Len(field) - 1 <= Len(message)
  /\ \A i \in 1..Len(field) : message[start + i - 1] = field[i]

(* The bytes before the id are the fields one after another, each at its
   start, the last start being that of what follows them. *)
AreFields(c) ==
  LET n == Len(c.fields)
  IN /\ n \in Nat /\ c.starts[1] = 1 /\ c.starts[n+1] = Len(c.before) + 1
     /\ \A i \in 1..n :
          LET field == WireField(c.fields[i])
          IN /\ IsField(c.fields[i]) /\ c.starts[i] \in Nat \ {0}
             /\ c.starts[i+1] = c.starts[i] + Len(field)
             /\ Stands(c.before, c.starts[i], field)

(* What follows the fields of a message without an id ends it: nothing, an
   unknown type or a value that reaches the end without being an id. *)
Ends(message, start) ==
  start \in 1..Len(message) /\ KnownType(message, start) =>
    ~HoldsId(message, start) /\ SkipValue(message, start) > Len(message)

ASSUME CallsAssumption ==
  /\ None \notin Seq(Bytes) /\ None # Error
  /\ \A c \in Calls :
       /\ c.op \in {"decode", "descramble"} =>
            /\ c.data \in Seq(Bytes) /\ c.style \in {"standard", "url_safe", "dotted"}
            /\ c.cut \in 0..Len(Encode(c.data, c.style = "url_safe"))
       /\ c.op = "placeholder" =>
            /\ c.identifier \in Seq(Bytes) /\ c.client_state \in Bytes /\ c.timestamp \in Nat
            /\ c.keys \in Seq(Bytes) /\ Len(c.keys) = 2
       /\ c.op = "own_visitor" => c.id \in Seq(Bytes) /\ Uint64(Len(c.id)) /\ Uint64(c.timestamp)
       /\ c.op = "server_visitor" =>
            /\ c.id = None \/ (c.id \in Seq(Bytes) /\ Uint64(Len(c.id)))
            /\ c.before \in Seq(Bytes) /\ c.after \in Seq(Bytes) /\ AreFields(c)
            /\ c.id = None => Ends(ServerMessage(c), Len(c.before) + 1)
            /\ {c.url_safe, c.lower} \subseteq BOOLEAN
       /\ c.op = "create" => IsBody(c.body)
       /\ c.op = "both" => /\ {c.url, c.program, c.global_name} \subseteq Text
                            /\ {c.snake, c.trusted} \subseteq BOOLEAN

VARIABLES
  call,
  answer,
  bytes,   \* of a visitor_data: the decoded message
  pos      \* and where its next field begins, 0 before it is decoded

vars == <<call, answer, bytes, pos>>

(* What arrives of `data` when only the first `cut` characters of its text do.
   bgutils writes '.' for the padding. *)
Received(data, style, cut) ==
  LET text == Encode(data, style = "url_safe")
      shown == [k \in DOMAIN text |-> IF style = "dotted" /\ text[k] = Eq THEN Dot ELSE text[k]]
  IN SubSeq(shown, 1, cut)

DecodeText ==
  /\ call.op = "decode"
  /\ answer' = Decode(Received(call.data, call.style, call.cut))

(* The server scrambles by subtracting 97. *)
DescrambleText ==
  /\ call.op = "descramble"
  /\ LET scrambled == [i \in DOMAIN call.data |-> (call.data[i] + 159) % 256]
     IN answer' = Descramble(Received(scrambled, call.style, call.cut))

MakePlaceholder ==
  /\ call.op = "placeholder"
  /\ answer' = GeneratePlaceholderToken(call.identifier, call.client_state, call.timestamp, call.keys)

ParseCreate ==
  /\ call.op = "create"
  /\ answer' = ParseChallengeResponse(call.body)

(* The same challenge as /att/get answers it and as Create does. *)
AttBody(c) ==
  LET url == IF c.trusted THEN [obj |-> [privateDoNotAccess |-> [str |-> c.url]]] ELSE [str |-> c.url]
      program == [str |-> c.program]
      global_name == [str |-> c.global_name]
  IN [obj |-> IF c.snake
              THEN [bg_challenge |-> [obj |-> [interpreter_url |-> url, program |-> program,
                                               global_name |-> global_name]]]
              ELSE [bgChallenge |-> [obj |-> [interpreterUrl |-> url, program |-> program,
                                              globalName |-> global_name]]]]

CreateBody(c) ==
  [arr |-> <<[arr |-> <<Null, Null, [arr |-> <<[str |-> c.url]>>], Null,
                        [str |-> c.program], [str |-> c.global_name]>>]>>]

ParseBoth ==
  /\ call.op = "both"
  /\ answer' = [att |-> ParseAttResponse(AttBody(call)),
                create |-> ParseChallengeResponse(CreateBody(call))]

(* decode_visitor_data_id of a text of its own or of a server's, which may
   put other fields first, pad the text and escape it. *)
VisitorText ==
  IF call.op = "own_visitor" THEN EncodeVisitorData(call.id, call.timestamp)
  ELSE Escape(Encode(ServerMessage(call), call.url_safe), call.escaped, call.lower)

ReadText ==
  /\ pos = 0
  /\ bytes' = Decode(Unescape(VisitorText))
  /\ pos' = 1
  /\ UNCHANGED answer

AtField == pos \in 1..Len(bytes)

TakeId ==
  /\ AtField /\ HoldsId(bytes, pos)
  /\ answer' = IdAt(bytes, pos)
  /\ UNCHANGED <<bytes, pos>>

SkipField ==
  /\ AtField /\ ~HoldsId(bytes, pos) /\ KnownType(bytes, pos)
  /\ pos' = SkipValue(bytes, pos)
  /\ UNCHANGED <<bytes, answer>>

NoField ==
  /\ pos # 0 /\ (AtField => ~KnownType(bytes, pos))
  /\ answer' = << >>
  /\ UNCHANGED <<bytes, pos>>

ReadVisitor ==
  call.op \in {"own_visitor", "server_visitor"} /\ (ReadText \/ TakeId \/ SkipField \/ NoField)

Init == call \in Calls /\ answer = None /\ bytes = << >> /\ pos = 0

AnswerAtOnce ==
  /\ DecodeText \/ DescrambleText \/ MakePlaceholder \/ ParseCreate \/ ParseBoth
  /\ UNCHANGED <<bytes, pos>>

Next == answer = None /\ UNCHANGED call /\ (AnswerAtOnce \/ ReadVisitor)

Spec == Init /\ [][Next]_vars
-----------------------------------------------------------------------------
(* Whatever part of a base64 text arrives, in either alphabet and with any
   padding, it decodes to the bytes it holds in full and to no other: a cut
   in the middle of a group, one lone character included, invents none. *)
DecodeRecoversPrefix ==
  answer # None /\ call.op \in {"decode", "descramble"} =>
    answer = SubSeq(call.data, 1,
                    IF (3 * call.cut) \div 4 <= Len(call.data) THEN (3 * call.cut) \div 4
                    ELSE Len(call.data))

(* The visitor id is found again: in the library's own visitor_data, and in a
   server's behind any fields and after the escaping of the transport.  In a
   message without one none is found. *)
VisitorIdSurvives ==
  answer # None /\ call.op \in {"own_visitor", "server_visitor"} =>
    answer = IF call.id = None THEN << >> ELSE call.id

(* How a server opens a placeholder token. *)
Unmasked(packet) ==
  [i \in 1..(Len(packet) - 2) |->
     IF i <= 2 THEN packet[2 + i] ELSE Xor(packet[2 + i], packet[2 + Place(i, 2)])]

(* A placeholder token opens to what went into it: the length byte counts
   the rest of the packet, which unmasks to keys, state, time and the whole
   identifier.  One that does not fit is refused and never cut. *)
PlaceholderOpens ==
  call.op = "placeholder" /\ answer # None =>
    LET packet == Decode(answer)
    IN /\ packet[1] = 34 /\ packet[2] = Len(packet) - 2
       /\ Unmasked(packet) = call.keys \o <<0, call.client_state>>
                             \o Clock(call.timestamp) \o call.identifier

(* The choices parse_inner documents, in order of preference: the trusted
   URLs, URLs among the safe scripts, then embedded scripts, of the safe
   array first. *)
Candidates(inner) ==
  LET elements(v) == IF IsArray(v) THEN v.arr ELSE << >>
      urlsFirst == elements(inner[3]) \o elements(inner[2])
      scriptsFirst == elements(inner[2]) \o elements(inner[3])
  IN Picked(urlsFirst, {i \in DOMAIN urlsFirst : IsUrl(urlsFirst[i])})
     \o Picked(scriptsFirst, {i \in DOMAIN scriptsFirst : IsJs(scriptsFirst[i])})

(* A challenge of Create is accepted only with an interpreter, either a URL
   with a scheme or a script and never both, and it is the first candidate. *)
InterpreterChosen ==
  call.op = "create" /\ answer \notin {None, Error} =>
    LET first == Candidates(InnerArray(call.body.arr).arr)[1].str
    IN IF IsAbsoluteUrl(first)
       THEN answer.interpreter_url = NormaliseUrl(first) /\ answer.interpreter_js = Empty
       ELSE answer.interpreter_js = first /\ answer.interpreter_url = Empty

(* A challenge that /att/get delivers is the same when it comes from Create,
   its fallback, provided its URL is absolute as it was sent; what Create
   accepts and /att/get refuses has no program, no global name or no URL. *)
EndpointsAgree ==
  call.op = "both" /\ answer # None =>
    /\ answer.att # Error /\ IsAbsoluteUrl(call.url) => answer.att = answer.create
    /\ answer.att = Error /\ answer.create # Error =>
         Empty \in {call.program, call.global_name} \/ answer.create.interpreter_url = Empty
=============================================================================
