------------------------------ MODULE Coercion ------------------------------
(***************************************************************************)
(* How the Python layer reads the ranges and defaults of an attribute from *)
(* the schema, and turns what a client assigns into a value of the         *)
(* attribute's type (schema.py, and the attribute part of dal.py).         *)
(*                                                                         *)
(* A text is what Python's int() makes of it in each base, without its     *)
(* characters; int() and time.strptime() are external.  float attributes   *)
(* are left out: they are coerced by float() alone.                        *)
(***************************************************************************)
EXTENDS Integers, Sequences

CONSTANTS
  Reads,      \* text -> [first, oct, dec, hex]: int() of it in each base
  NotANumber, \* where int() raises ValueError
  Decimal,    \* number -> the text str() makes of it
  Pattern,    \* range of a string attribute -> the texts it matches
  Dates,      \* [date, time]: the texts strptime() takes
  Limits,     \* integer type -> <<least, greatest>>
  MaxSize,    \* sys.maxsize
  MaxLong     \* 0xffffffffffffffff

\* oks_types.
StringTypes == {"date", "time", "string", "enum", "class"}
IntegerTypes == {"s8", "u8", "s16", "u16", "s32"}
LongTypes == {"u32", "s64", "u64"}
IntNumbers == IntegerTypes \cup LongTypes

\* A Python value, or the exception that took its place.
Num(n) == [py |-> "int", n |-> n]
Bool(b) == [py |-> "bool", b |-> b]
Str(t) == [py |-> "str", t |-> t]
List(s) == [py |-> "list", s |-> s]
Nothing == [py |-> "None"]
Raise(e) == [py |-> "raise", e |-> e]
Raised(v) == v.py = "raise"

OneOf(n, m) == IF n # NotANumber THEN Num(n)
               ELSE IF m # NotANumber THEN Num(m) ELSE Raise("ValueError")

str2integerDecimal(v, max) ==  \* mutant: a leading zero does not mean octal
  IF v.py # "str" THEN v
  ELSE LET r == Reads[v.t] IN
       CASE r.first = "" -> v
         [] r.first = "*" -> Num(max)
         [] OTHER -> OneOf(r.dec, r.hex)
str2integer(v, max) ==
  IF v.py # "str" THEN v
  ELSE LET r == Reads[v.t] IN
       CASE r.first = "" -> v
         [] r.first = "*" -> Num(max)
         [] r.first = "0" -> OneOf(r.oct, r.hex)
         [] OTHER -> OneOf(r.dec, r.hex)

to_int(v) == str2integer(v, MaxSize)
to_long(v) == str2integer(v, MaxLong)
to_str(v) ==
  CASE v.py = "str" -> v
    [] v.py = "int" -> Str(Decimal[v.n])
    [] v.py = "bool" -> Str(IF v.b THEN "True" ELSE "False")
to_bool(v) ==
  CASE v.py = "bool" -> v
    [] v.py = "int" -> Bool(v.n # 0)
    [] v.py = "str" -> Bool(v.t \notin {"0", "false"})

\* map_coercion(): python_class by type.
python_class(type, v) ==
  CASE type \in StringTypes -> to_str(v)
    [] type = "bool" -> to_bool(v)
    [] type \in IntegerTypes -> to_int(v)
    [] type \in LongTypes -> to_long(v)

\* decode_range(): both '1..5' and '1-5' are an interval, '5' a single value.
\* An item of a range is the sequence of its bounds' texts.
decode_range(type, item) == [j \in DOMAIN item |-> python_class(type, Str(item[j]))]

\* The ranges of an attribute; integers without one get their type's limits.
mapped_range(attr) ==
  IF attr.range # {} THEN {decode_range(attr.type, item) : item \in attr.range}
  ELSE IF attr.type \in IntNumbers THEN {<<Num(Limits[attr.type][1]), Num(Limits[attr.type][2])>>}
  ELSE {}

\* True is 1 to Python's comparisons.
AsNumber(v) == IF v.py = "bool" THEN IF v.b THEN 1 ELSE 0 ELSE v.n
Equal(v, w) == IF "str" \in {v.py, w.py} THEN v.py = w.py /\ v = w ELSE AsNumber(v) = AsNumber(w)

CheckBelow(v, range) ==  \* mutant: the upper bound is not checked
  IF v.py = "str" /\ \E k \in range : Len(k) = 2 THEN Raise("TypeError")
  ELSE IF \E k \in range : IF Len(k) = 2 THEN AsNumber(v) >= k[1].n
                           ELSE Equal(v, k[1])
       THEN v ELSE Raise("ValueError")
\* check_range() of a value that no pattern is for: Python compares a number
\* with an interval, and refuses to compare a string with one.
check_range(v, range) ==
  IF v.py = "str" /\ \E k \in range : Len(k) = 2 THEN Raise("TypeError")
  ELSE IF \E k \in range : IF Len(k) = 2 THEN k[1].n <= AsNumber(v) /\ AsNumber(v) <= k[2].n
                           ELSE Equal(v, k[1])
       THEN v ELSE Raise("ValueError")

\* coerce(): the range comes first, ...
InRange(v, attr) ==
  IF Raised(v) THEN v
  ELSE IF attr.pattern # "" THEN IF v.t \in Pattern[attr.pattern] THEN v ELSE Raise("ValueError")
  ELSE IF attr.range = {} /\ attr.type \notin IntNumbers THEN v
  ELSE check_range(v, mapped_range(attr))

\* ... then what is special to the type.
\* refs: the classes that a class reference may name, the keys of __dal__.
Special(v, attr, refs) ==
  IF Raised(v) \/ CASE attr.type = "class" -> v.t \in refs
                    [] attr.type \in {"date", "time"} -> v.t \in Dates[attr.type]
                    [] OTHER -> TRUE
  THEN v ELSE Raise("ValueError")

coerce(v, attr, refs) == Special(InRange(python_class(attr.type, v), attr), attr, refs)

check_cardinality(v, attr) == (v.py = "list") = attr.multivalue

\* A list whose items were coerced, or the first exception.
CoercedList(s) ==
  LET failed == {j \in DOMAIN s : Raised(s[j])} IN
  IF failed = {} THEN List(s) ELSE s[CHOOSE j \in failed : \A k \in failed : j <= k]

\* __setattr__() of an attribute: what is stored, or raised.
setattr(attr, v, refs) ==
  IF v = Nothing THEN v
  ELSE IF ~check_cardinality(v, attr) THEN Raise("ValueError")
  ELSE IF attr.multivalue THEN CoercedList([j \in DOMAIN v.s |-> coerce(v.s[j], attr, refs)])
  ELSE coerce(v, attr, refs)

\* map_coercion(): the initial value; one that cannot be coerced stays text,
\* and so does any of a string type.  Only ValueError is caught.
CoercedOrText(v, attr) == IF v = Raise("ValueError") THEN Str(attr.text) ELSE v
Split(attr) ==
  IF attr.multivalue THEN List([j \in DOMAIN attr.init |-> Str(attr.init[j])]) ELSE Str(attr.init[1])
init_value(attr, refs) ==
  IF attr.type \in StringTypes THEN Str(attr.text)
  ELSE CoercedOrText(setattr(attr, Split(attr), refs), attr)

\* Python's truth of a value.
True(v) == CASE v.py = "bool" -> v.b
             [] v.py = "int" -> v.n # 0
             [] v.py = "str" -> v.t # ""
             [] v.py = "list" -> v.s # <<>>
             [] OTHER -> FALSE

\* __getattr__() of an attribute that is not set, given its initial value.
ReadUnset(attr, init, refs) ==
  IF attr.init # <<>> /\ True(init) THEN setattr(attr, init, refs)
  ELSE IF attr.multivalue THEN setattr(attr, List(<<>>), refs)
  ELSE Nothing
getattr(attr, refs) ==
  ReadUnset(attr, IF attr.init = <<>> THEN Nothing ELSE init_value(attr, refs), refs)

----------------------------------------------------------------------------
(* What the schema says of an attribute, apart from the code above.        *)

CONSTANT Denotes  \* number -> the numerals of the schema language for it

\* '*' as the upper bound of an interval leaves it open, up to the type's limit.
IsOpen(item) == Len(item) = 2 /\ Reads[item[2]].first = "*"

\* An item of a range holds a number or a text.
Within(v, item, type) ==
  IF v.py = "str" THEN item = <<v.t>>
  ELSE LET n == AsNumber(v)
           Bound(text, least) == \E m \in DOMAIN Denotes :
             text \in Denotes[m] /\ IF least THEN m <= n ELSE n <= m
       IN IF Len(item) = 1 THEN n \in DOMAIN Denotes /\ item[1] \in Denotes[n]
          ELSE /\ Bound(item[1], TRUE)
               /\ IF IsOpen(item) THEN n <= Limits[type][2] ELSE Bound(item[2], FALSE)

OfType(v, type, refs) ==
  CASE type \in IntNumbers -> v.py \in {"int", "bool"}
    [] type = "bool" -> v.py = "bool"
    [] type = "class" -> v.py = "str" /\ v.t \in refs
    [] type \in {"date", "time"} -> v.py = "str" /\ v.t \in Dates[type]
    [] OTHER -> v.py = "str"

\* A single value that the attribute may have.
Conforms(v, attr, refs) ==
  /\ OfType(v, attr.type, refs)
  /\ attr.type \in IntNumbers /\ attr.range = {} =>
       Limits[attr.type][1] <= AsNumber(v) /\ AsNumber(v) <= Limits[attr.type][2]
  /\ attr.pattern # "" => v.t \in Pattern[attr.pattern]
  /\ attr.range # {} => \E item \in attr.range : Within(v, item, attr.type)

\* All values that v consists of.
Elements(v) == IF v.py = "list" THEN {v.s[j] : j \in DOMAIN v.s} ELSE {v} \ {Nothing}

\* An attribute that OKS lets a class declare: a range of integers holds numerals,
\* and maybe intervals; a string has a pattern instead, and a bool no range.  No
\* default is one like '1,,2', whose empty item compares a text with an interval.
IsNumeral(text) == \E n \in DOMAIN Denotes : text \in Denotes[n]
WellFormed(attr) ==
  /\ attr.multivalue \in BOOLEAN
  /\ attr.type \in StringTypes \cup IntNumbers \cup {"bool"}
  /\ attr.pattern # "" => attr.type = "string"
  /\ attr.range # {} => attr.type \notin {"string", "bool"}
  /\ attr.init # <<>> /\ attr.type \notin StringTypes =>
       setattr(attr, Split(attr), {}) # Raise("TypeError")
  /\ attr.range \subseteq Seq(DOMAIN Reads)
  /\ \A item \in attr.range :
       IF attr.type \in IntNumbers
       THEN /\ Len(item) \in 1 .. 2
            /\ \A j \in DOMAIN item : IsNumeral(item[j]) \/ (j = 2 /\ IsOpen(item))
       ELSE Len(item) = 1

IsScalar(v) ==
  \/ v.py = "int" /\ v = Num(v.n) /\ v.n \in Int
  \/ v.py = "bool" /\ v = Bool(v.b) /\ v.b \in BOOLEAN
  \/ v.py = "str" /\ v = Str(v.t) /\ v.t \in DOMAIN Reads

\* A numeral is what C takes for one: octal after a leading 0, hexadecimal after
\* 0x, and decimal otherwise.
ASSUME NumeralsAssumption ==
  \A n \in DOMAIN Denotes : \A text \in Denotes[n] :
    LET r == Reads[text] IN
    /\ n \in Int /\ n # NotANumber /\ text \in DOMAIN Reads
    /\ r.first \notin {"", "*"}
    /\ IF r.first = "0" THEN r.oct = n \/ (r.oct = NotANumber /\ r.hex = n) ELSE r.dec = n

\* The bound that stands for '*' is no less than any of the type's values.
ASSUME LimitsAssumption ==
  /\ MaxSize \in Int /\ MaxLong \in Int
  /\ \A type \in IntNumbers :
       /\ Limits[type][1] \in Int /\ Limits[type][2] \in Int
       /\ Limits[type][2] <= IF type \in IntegerTypes THEN MaxSize ELSE MaxLong
=============================================================================
