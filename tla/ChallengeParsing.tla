--------------------------- MODULE ChallengeParsing ---------------------------
(***************************************************************************)
(* challenge.cpp: the answers of Create and of /att/get turned into a      *)
(* bg_challenge.  A JSON value is a record with one field that names its   *)
(* type: str, arr, obj (a function from keys) or other.  Of a string only  *)
(* what looks like a URL matters: its scheme, whether two slashes follow,  *)
(* and what comes after them.  A scrambled string carries the value it     *)
(* descrambles to; without one it does not parse.                          *)
(***************************************************************************)
EXTENDS Subsequences

Text == [scheme : {"", "http"}, slashes : BOOLEAN, rest : {"", "host", "mirror", "# comment", "code"}]

Empty == [scheme |-> "", slashes |-> FALSE, rest |-> ""]

Null == [other |-> TRUE]
Error == [error |-> TRUE]

IsString(v) == "str" \in DOMAIN v
IsArray(v) == "arr" \in DOMAIN v
IsObject(v) == "obj" \in DOMAIN v

(* http:// or https:// with anything, // only before a letter or digit. *)
IsAbsoluteUrl(t) == t.slashes /\ (t.scheme # "" \/ t.rest \in {"host", "mirror", "code"})

NormaliseUrl(t) == IF t.scheme = "" /\ t.slashes THEN [t EXCEPT !.scheme = "http"] ELSE t

(* The places of an array that hold a URL or a script. *)
IsUrl(v) == IsString(v) /\ IsAbsoluteUrl(v.str)
IsJs(v) == IsString(v) /\ v.str # Empty /\ ~IsAbsoluteUrl(v.str)

Urls(v) == IF IsArray(v) THEN {i \in DOMAIN v.arr : IsUrl(v.arr[i])} ELSE {}
Scripts(v) == IF IsArray(v) THEN {i \in DOMAIN v.arr : IsJs(v.arr[i])} ELSE {}

First(v, places) ==
  IF places = {} THEN Empty ELSE v.arr[CHOOSE i \in places : \A j \in places : i <= j].str

PickUrl(v) == NormaliseUrl(First(v, Urls(v)))
PickJs(v) == First(v, Scripts(v))

(* Mutant: the safe scripts are searched for a URL first. *)
ScriptsBeforeUrls(e, r) ==
  LET url == IF PickUrl(e) # Empty THEN PickUrl(e) ELSE PickUrl(r)
      js == IF PickJs(e) # Empty THEN PickJs(e) ELSE PickJs(r)
  IN [url |-> url, js |-> IF url # Empty THEN Empty ELSE js]

(* From the safe scripts e and the trusted URLs r. *)
Interpreter(e, r) ==
  LET url == IF PickUrl(r) # Empty THEN PickUrl(r) ELSE PickUrl(e)
      js == IF PickJs(e) # Empty THEN PickJs(e) ELSE PickJs(r)
  IN [url |-> url, js |-> IF url # Empty THEN Empty ELSE js]

(* parse_inner and parse_challenge_response *)
InnerArray(outer) ==
  IF Len(outer) > 1 /\ IsString(outer[2])
  THEN IF "json" \in DOMAIN outer[2] THEN outer[2].json ELSE Null
  ELSE outer[1]

ParseChallengeResponse(body) ==
  IF ~IsArray(body) \/ body.arr = << >> THEN Error
  ELSE LET inner == InnerArray(body.arr)
       IN IF ~IsArray(inner) \/ Len(inner.arr) < 6 THEN Error
          ELSE LET from == Interpreter(inner.arr[2], inner.arr[3])
               IN IF \/ from.url = Empty /\ from.js = Empty
                     \/ ~IsString(inner.arr[5]) \/ ~IsString(inner.arr[6])
                  THEN Error
                  ELSE [interpreter_url |-> from.url, interpreter_js |-> from.js,
                        program |-> inner.arr[5].str, global_name |-> inner.arr[6].str]
-----------------------------------------------------------------------------
(* The value of a key in camelCase or else in snake_case, of those admitted. *)
Lookup(o, admitted, camel, snake) ==
  IF camel \in admitted THEN o[camel] ELSE IF snake \in admitted THEN o[snake] ELSE Null

(* A string, or the non-empty string of a TrustedScriptURL object. *)
ExtractUrlField(v) ==
  IF IsString(v) THEN v.str
  ELSE IF ~IsObject(v) THEN Empty
  ELSE LET full == {k \in DOMAIN v.obj : IsString(v.obj[k]) /\ v.obj[k].str # Empty}
       IN IF full = {} THEN Empty ELSE v.obj[CHOOSE k \in full : TRUE].str

GetStr(o, camel, snake) ==
  LET v == Lookup(o, {k \in DOMAIN o : IsString(o[k])}, camel, snake) IN IF IsString(v) THEN v.str ELSE Empty

(* Mutant: a protocol-relative URL is returned as it came. *)
AttUrlAsIs(bgc) ==
  ExtractUrlField(Lookup(bgc, DOMAIN bgc, "interpreterUrl", "interpreter_url"))

AttUrl(bgc) ==
  NormaliseUrl(ExtractUrlField(Lookup(bgc, DOMAIN bgc, "interpreterUrl", "interpreter_url")))

ParseAttResponse(resp) ==
  LET bgc == IF ~IsObject(resp) THEN Null
             ELSE Lookup(resp.obj, {k \in DOMAIN resp.obj : IsObject(resp.obj[k])},
                         "bgChallenge", "bg_challenge")
  IN IF ~IsObject(bgc) THEN Error
     ELSE LET url == AttUrl(bgc.obj)
              program == GetStr(bgc.obj, "program", "program")
              global_name == GetStr(bgc.obj, "globalName", "global_name")
          IN IF ~IsAbsoluteUrl(url) \/ program = Empty \/ global_name = Empty THEN Error
             ELSE [interpreter_url |-> url, interpreter_js |-> Empty,
                   program |-> program, global_name |-> global_name]
=============================================================================
