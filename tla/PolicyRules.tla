----------------------------- MODULE PolicyRules -----------------------------
(***************************************************************************)
(* The conditions a tool rule puts on the arguments of a call and the      *)
(* objects it counts in them (policy.py), next to what the upstream makes  *)
(* of the same values: its SDK decodes a JSON string, its declared types   *)
(* read "0" and False as 0.                                                *)
(*                                                                         *)
(* A value is a record of one field, its type: null, bool (0 or 1), num,   *)
(* list (a sequence), dict (the number of its entries), and four kinds of  *)
(* str: word, which is no JSON or that of a str, long, the same beyond     *)
(* REGEX_MAX_CHARS, text, the JSON of another value, and deep, the JSON of *)
(* a list that only a larger interpreter than the proxy's decodes.         *)
(***************************************************************************)
EXTENDS Integers, Sequences

Is(v, type) == type \in DOMAIN v

Null == [null |-> 0]

IsStr(v) == \E type \in {"word", "long", "text", "deep"} : Is(v, type)

IsNumeric(v) == Is(v, "bool") \/ Is(v, "num")

Scalar(v) == IsStr(v) \/ IsNumeric(v)

IsPlain(v) == v \in [null : {0}] \cup [bool : {0, 1}] \cup [num : Int] \cup [dict : Nat]

IsList(v, type) == DOMAIN v = {type} /\ Len(v[type]) \in Nat

\* One value, whatever the elements of a list are.
IsItem(v) ==
  \/ IsPlain(v) \/ IsList(v, "list") \/ IsList(v, "deep")
  \/ v \in [word : STRING] \cup [long : STRING]
  \/ DOMAIN v = {"text"} /\ (IsPlain(v.text) \/ IsList(v.text, "list"))

IsValue(v) == IsItem(v) /\ (Is(v, "list") => \A i \in DOMAIN v.list : IsItem(v.list[i]))

-----------------------------------------------------------------------------
(* The upstream *)

\* What the SDK replaces by what it decodes: a null, a list or a dict.
Replaced(v) ==
  Is(v, "text") /\ \E type \in {"null", "list", "dict"} : Is(v.text, type)

\* The values a tool may be handed for v.
Readings(v) ==
  IF Replaced(v) THEN {v.text}
  ELSE IF Is(v, "deep") THEN {v, [list |-> v.deep]}
  ELSE {v}

Elements(v) == IF Is(v, "list") THEN {v.list[i] : i \in DOMAIN v.list} ELSE {v}

\* What an argument declared as a number is set to by a scalar.
AsNumber(x) ==
  IF Is(x, "bool") THEN {[num |-> x.bool]}
  ELSE IF Is(x, "text") /\ Is(x.text, "num") THEN {x.text}
  ELSE {}

\* The objects a tool touches.
Touches(v) ==
  IF Is(v, "list") THEN Len(v.list) ELSE IF Is(v, "dict") THEN v.dict ELSE 1

-----------------------------------------------------------------------------
(* The helpers *)

Undecodable == [undecodable |-> 0]

\* Variant: the decode error is taken for a string that is no JSON.
JsonOptimist(v) == IF Replaced(v) THEN v.text ELSE v

\* _json
Json(v) ==
  IF Is(v, "deep") THEN Undecodable
  ELSE IF Is(v, "text") /\ ~Scalar(v.text) THEN v.text
  ELSE v

\* a == b in Python, for which True is 1.
Equal(a, b) ==
  IF IsNumeric(a) /\ IsNumeric(b)
  THEN (IF Is(a, "bool") THEN a.bool ELSE a.num) = (IF Is(b, "bool") THEN b.bool ELSE b.num)
  ELSE a = b

\* _same
Same(a, b) == (Is(a, "bool") <=> Is(b, "bool")) /\ Equal(a, b)

\* _kind
Kind(x) ==
  CASE Is(x, "bool") -> "bool"
    [] Is(x, "num") -> "float"
    [] IsStr(x) -> "str"
    [] OTHER -> "NoneType"

-----------------------------------------------------------------------------
(* WhereRule: [arg, kind, vals, env, optional].  vals are the values of    *)
(* equals, in or not_in, or the strings the pattern matches.               *)

Listed(w, x) == \E a \in w.vals : Same(x, a)

\* Variant: a value of a kind the list does not contain is not listed.
ForbiddenOnly(w, x) == ~Listed(w, x)

\* not_in
NotForbidden(w, x) == (\E a \in w.vals : Kind(x) = Kind(a)) /\ ~Listed(w, x)

\* WhereRule.matches
Matches(w, x) ==
  \/ x = Null /\ w.kind = "equals" /\ Null \in w.vals
  \/ /\ Scalar(x)
     /\ CASE w.kind = "regex" -> IsStr(x) /\ ~Is(x, "long") /\ x \in w.vals
          [] w.kind \in {"equals", "in"} -> Listed(w, x)
          [] w.kind = "not_in" -> NotForbidden(w, x)

\* WhereRule.holds
Holds(w, v) ==
  IF Is(v, "list") THEN \A x \in Elements(v) : Matches(w, x)
  ELSE IF IsStr(v) THEN IsStr(Json(v)) /\ Matches(w, v)
  ELSE Matches(w, v)

\* _over_regex_cap
OverRegexCap(v) == \E x \in Elements(v) : Is(x, "long")

\* args_violation: some condition that applies here fails.
ArgsViolation(where, env, args) ==
  \E w \in where :
    /\ env \in w.env
    /\ \/ w.arg \notin DOMAIN args /\ ~w.optional
       \/ /\ w.arg \in DOMAIN args
          /\ ~Holds(w, args[w.arg]) \/ (w.kind = "regex" /\ OverRegexCap(args[w.arg]))

-----------------------------------------------------------------------------

\* No count: a string this interpreter cannot decode.
NoCount == -1

\* Variant: the raw string is counted.
CountRaw(arg, args) == IF arg \in DOMAIN args THEN Touches(args[arg]) ELSE 1

\* count_objects; arg is count_arg.
CountObjects(arg, args) ==
  IF arg \notin DOMAIN args THEN 1
  ELSE LET v == IF IsStr(args[arg]) THEN Json(args[arg]) ELSE args[arg]
       IN IF v = Undecodable THEN NoCount
          ELSE IF Is(v, "list") THEN Len(v.list)
          ELSE IF Is(v, "dict") THEN v.dict ELSE 1
=============================================================================
