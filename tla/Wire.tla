-------------------------------- MODULE Wire --------------------------------
(***************************************************************************)
(* Documents on the wire and the values they stand for.                    *)
(*                                                                         *)
(* A JSON value is a tagged tuple: <<"null">>, <<"str", s>>, <<"num", n>>, *)
(* <<"bool", b>>, <<"list", seq>> or <<"obj", f>> with f a function on     *)
(* keys.  A Python value is <<"unset">> (the generated client's UNSET),    *)
(* <<"uuid", u>>, <<"date", d>>, <<"enum", e>>, <<"list", seq>>, an        *)
(* <<"object", [fields, extra]>> (extra: additional_properties, or the     *)
(* whole of a free-form object) or one of the scalars, None included.      *)
(*                                                                         *)
(* A class is a record from wire keys to types.  The modules ApiClient     *)
(* and ApiServer hold the classes of the client and of the server; this    *)
(* module says how either side reads and writes them.                      *)
(***************************************************************************)
EXTENDS Naturals, Sequences, FiniteSets, TLC

----------------------------------------------------------------------------
(* Types.                                                                  *)

Str == <<"str">>
Num == <<"num">>
Bool == <<"bool">>
Json == <<"any">>
Uuid == <<"uuid">>
Date == <<"date">>
Strs == <<"strs">>
File == <<"file">>
Enum(S) == <<"enum", S>>
List(T) == <<"list", T>>
Cls(C) == <<"class", C>>
Map(T) == <<"map", T>>
OrNull(T) == <<"ornull", T>>
Opt(T) == <<"opt", T>>
Default(T) == <<"default", T>>

Unset == <<"unset">>
Null == <<"null">>
Raised == <<"raised">>
None == <<>>
Object(fields, extra) == <<"object", [fields |-> fields, extra |-> extra]>>

(* One identifier and one instant.  The server writes instants with a Z,   *)
(* datetime.isoformat with an offset; fromisoformat and pydantic read both.*)
UuidText == "1a2b3c4d-0000-4000-8000-000000000001"
Zulu == "2026-09-25T10:00:00Z"
Offset == "2026-09-25T10:00:00+00:00"
Instant == "2026-09-25T10:00"

----------------------------------------------------------------------------
(* Small sets of values of a type: a base value and the values that differ *)
(* from it in one place.  Fields are read and written one by one, so two   *)
(* deviations at once behave as each does alone.                           *)

RECURSIVE Base(_)
Base(T) ==
  CASE T[1] \in {"str", "any", "file"} -> <<"str", "text">>
    [] T[1] = "num" -> <<"num", 0>>
    [] T[1] = "bool" -> <<"bool", FALSE>>
    [] T[1] = "uuid" -> <<"uuid", UuidText>>
    [] T[1] = "date" -> <<"date", Instant>>
    [] T[1] = "enum" -> <<"enum", CHOOSE e \in T[2] : TRUE>>
    [] T[1] \in {"list", "strs"} -> <<"list", <<>>>>
    [] T[1] = "map" -> Object(None, None)
    [] T[1] = "class" -> Object([k \in DOMAIN T[2] |-> Base(T[2][k])], None)
    [] T[1] = "ornull" -> Null
    [] T[1] = "opt" -> Unset
    [] T[1] = "default" -> Base(T[2])

(* later: with keys that a newer server may add.                           *)
RECURSIVE Samples(_, _)
Samples(T, later) ==
  CASE T[1] = "any" -> {Base(T), Null, <<"num", 0>>}
    [] T[1] = "enum" -> {<<"enum", e>> : e \in T[2]}
    [] T[1] = "strs" -> {Base(T), <<"list", << <<"str", "text">> >> >>}
    [] T[1] = "list" -> {Base(T)} \cup {<<"list", <<x>>>> : x \in Samples(T[2], later)}
    [] T[1] = "map" -> {Base(T), Object(None, "key" :> Base(T[2]))}
    [] T[1] = "class" ->
         LET b == Base(T)[2].fields
         IN  {Base(T)} \cup (IF later THEN {Object(b, "addedLater" :> Null)} ELSE {})
             \cup UNION {{Object([b EXCEPT ![k] = x], None) : x \in Samples(T[2][k], later)}
                           : k \in DOMAIN T[2]}
    [] T[1] = "ornull" -> {Null} \cup Samples(T[2], later)
    [] T[1] = "opt" -> {Unset} \cup Samples(T[2], later)
    [] T[1] = "default" -> Samples(T[2], later)
    [] OTHER -> {Base(T)}

(* v is what the annotations of type T promise.                            *)
RECURSIVE HasType(_, _)
HasType(T, v) ==
  CASE T[1] \in {"str", "num", "bool", "uuid", "date"} -> v[1] = T[1]
    [] T[1] = "any" -> TRUE
    [] T[1] = "file" -> v[1] = "str"
    [] T[1] = "strs" -> v[1] = "list" /\ \A i \in DOMAIN v[2] : v[2][i][1] = "str"
    [] T[1] = "enum" -> v[1] = "enum" /\ v[2] \in T[2]
    [] T[1] = "list" -> v[1] = "list" /\ \A i \in DOMAIN v[2] : HasType(T[2], v[2][i])
    [] T[1] = "map" -> v[1] = "object"
    [] T[1] = "class" -> v[1] = "object" /\ \A k \in DOMAIN T[2] :
                                              HasType(T[2][k], v[2].fields[k])
    [] T[1] = "ornull" -> v = Null \/ HasType(T[2], v)
    [] T[1] \in {"opt", "default"} -> v = Unset \/ HasType(T[2], v)

----------------------------------------------------------------------------
(* The generated client.                                                   *)

(* to_dict: nested objects and lists, value of an enum, str of a UUID and  *)
(* isoformat of a datetime; UNSET fields are left out, additional          *)
(* properties are kept.                                                    *)
RECURSIVE to_dict(_)
to_dict(v) ==
  CASE v[1] \in {"uuid", "enum"} -> <<"str", v[2]>>
    [] v[1] = "date" -> <<"str", Offset>>
    [] v[1] = "list" -> <<"list", [i \in DOMAIN v[2] |-> to_dict(v[2][i])]>>
    [] v[1] = "object" ->
         LET given == {k \in DOMAIN v[2].fields : v[2].fields[k] # Unset}
         IN  <<"obj", [k \in given |-> to_dict(v[2].fields[k])] @@ v[2].extra>>
    [] OTHER -> v

IsText(j, texts) == j[1] = "str" /\ j[2] \in texts

Rest(K, d) == [k \in DOMAIN d \ K |-> d[k]]

(* from_dict: a missing required key, a value no enum knows, a text that is*)
(* no UUID or instant and a nested value of the wrong shape raise.  A type *)
(* that also allows null tries its conversion and falls back to the raw    *)
(* value.  Scalars are not looked at.  Keys it does not know are kept.     *)
RECURSIVE from_dict(_, _)
from_dict(T, j) ==
  CASE T[1] = "uuid" -> IF IsText(j, {UuidText}) THEN <<"uuid", j[2]>> ELSE Raised
    [] T[1] = "date" -> IF IsText(j, {Zulu, Offset}) THEN <<"date", Instant>> ELSE Raised
    [] T[1] = "enum" -> IF IsText(j, T[2]) THEN <<"enum", j[2]>> ELSE Raised
    [] T[1] = "list" ->
         IF j[1] # "list" THEN Raised
         ELSE LET s == [i \in DOMAIN j[2] |-> from_dict(T[2], j[2][i])]
              IN  IF \E i \in DOMAIN s : s[i] = Raised THEN Raised ELSE <<"list", s>>
    [] T[1] = "map" -> IF j[1] = "obj" THEN Object(None, j[2]) ELSE Raised
    [] T[1] = "class" ->
         IF j[1] # "obj" THEN Raised
         ELSE LET C == T[2]
                  d == j[2]
                  Field(k) == IF k \in DOMAIN d THEN from_dict(C[k], d[k])
                              ELSE IF C[k][1] = "opt" THEN Unset ELSE Raised
                  f == [k \in DOMAIN C |-> Field(k)]
              IN  IF \E k \in DOMAIN C : f[k] = Raised THEN Raised
                  ELSE Object(f, Rest(DOMAIN C, d))
    [] T[1] = "ornull" ->
         IF j = Null THEN Null
         ELSE LET v == from_dict(T[2], j) IN IF v = Raised THEN j ELSE v
    [] T[1] = "opt" -> from_dict(T[2], j)
    [] OTHER -> j

(* to_multipart: every part is text without a file name, None included.    *)
to_multipart(v) ==
  LET given == {k \in DOMAIN v[2].fields : v[2].fields[k] # Unset}
  IN  [k \in given |-> [named |-> FALSE,
                        text |-> IF v[2].fields[k] = Null THEN "None" ELSE v[2].fields[k][2]]]

----------------------------------------------------------------------------
(* The server: pydantic models with camel case aliases.                    *)

(* Serialization writes every field, defaults included.                    *)
RECURSIVE Dump(_)
Dump(v) ==
  CASE v[1] \in {"uuid", "enum"} -> <<"str", v[2]>>
    [] v[1] = "date" -> <<"str", Zulu>>
    [] v[1] = "list" -> <<"list", [i \in DOMAIN v[2] |-> Dump(v[2][i])]>>
    [] v[1] = "object" ->
         <<"obj", [k \in DOMAIN v[2].fields |-> Dump(v[2].fields[k])] @@ v[2].extra>>
    [] OTHER -> v

(* Validation: a field without a default must be present, null only where  *)
(* it is allowed, values of the declared kind; unknown keys are ignored and*)
(* an absent field with a default is unset.                                *)
RECURSIVE Validate(_, _)
Validate(T, j) ==
  CASE T[1] = "any" -> j
    [] T[1] \in {"str", "num", "bool"} -> IF j[1] = T[1] THEN j ELSE Raised
    [] T[1] = "uuid" -> IF IsText(j, {UuidText}) THEN <<"uuid", j[2]>> ELSE Raised
    [] T[1] = "date" -> IF IsText(j, {Zulu, Offset}) THEN <<"date", Instant>> ELSE Raised
    [] T[1] = "enum" -> IF IsText(j, T[2]) THEN <<"enum", j[2]>> ELSE Raised
    [] T[1] = "list" ->
         IF j[1] # "list" THEN Raised
         ELSE LET s == [i \in DOMAIN j[2] |-> Validate(T[2], j[2][i])]
              IN  IF \E i \in DOMAIN s : s[i] = Raised THEN Raised ELSE <<"list", s>>
    [] T[1] = "map" ->
         IF j[1] = "obj" /\ \A k \in DOMAIN j[2] : Validate(T[2], j[2][k]) # Raised
         THEN Object(None, j[2]) ELSE Raised
    [] T[1] = "class" ->
         IF j[1] # "obj" THEN Raised
         ELSE LET C == T[2]
                  Field(k) == IF k \in DOMAIN j[2] THEN Validate(C[k], j[2][k])
                              ELSE IF C[k][1] = "default" THEN Unset ELSE Raised
                  f == [k \in DOMAIN C |-> Field(k)]
              IN  IF \E k \in DOMAIN C : f[k] = Raised THEN Raised ELSE Object(f, None)
    [] T[1] = "ornull" -> IF j = Null THEN Null ELSE Validate(T[2], j)
    [] T[1] = "default" -> Validate(T[2], j)

=============================================================================
