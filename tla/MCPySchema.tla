----------------------------- MODULE MCPySchema -----------------------------
(***************************************************************************)
(* PySchema for TLC.  core and old declare Root with different attributes, *)
(* apps derives from it, and ext has a class (Last) with fewer direct      *)
(* superclasses than its base (Mix), which generate() has to put off.  In  *)
(* odd, with another Mix, Odd has the superclasses of Mix, but with Root   *)
(* listed before Mid, and type() refuses it.                               *)
(* Integers are scaled: 8 bits are 2, 16 are 3, 32 are 4 and 64 are 5.     *)
(***************************************************************************)
EXTENDS PySchema, TLC

MCFiles == {"core", "old", "apps", "ext", "odd", "data"}
MCClasses == {"Root", "Mid", "Mix", "Last", "Odd"}
MCLinearisable == MCClasses \ {"Odd"}
Class(super, attributes) == [super |-> super, attributes |-> attributes]
MCDeclares == [f \in MCFiles |->
  CASE f = "core" -> "Root" :> Class({}, {"s8", "u16", "enum", "bool"})
    [] f = "old" -> "Root" :> Class({}, {"s8", "enum"})
    [] f = "apps" -> "Mid" :> Class({"Root"}, {"string", "text", "u64s", "date", "class"})
    [] f = "ext" -> "Mix" :> Class({"Root", "Mid"}, {"open", "s64"}) @@ "Last" :> Class({"Mix"}, {"enums"})
    [] f = "odd" -> "Mix" :> Class({"Root", "Mid"}, {"open"}) @@ "Odd" :> Class({"Root", "Mid"}, {})
    [] f = "data" -> <<>>]

MCLimits == [type \in {"s8", "u8", "s16", "u16", "s32", "u32", "s64", "u64"} |->
  CASE type = "s8" -> <<-2, 1>> [] type = "u8" -> <<0, 3>>
    [] type = "s16" -> <<-4, 3>> [] type = "u16" -> <<0, 7>>
    [] type = "s32" -> <<-8, 7>> [] type = "u32" -> <<0, 15>>
    [] type = "s64" -> <<-16, 15>> [] type = "u64" -> <<0, 31>>]

Attr(type, range, init) == [type |-> type, range |-> range, pattern |-> "",
  multivalue |-> FALSE, init |-> init, text |-> IF init = <<>> THEN "" ELSE init[1]]
Many(attr, text) == [attr EXCEPT !.multivalue = TRUE, !.text = text]
MCAttributeOf == [a \in {"s8", "u16", "open", "s64", "u64s", "bool", "string", "text", "enum", "enums", "class", "date"} |->
  CASE a = "s8" -> Attr("s8", {}, <<"0">>)
    [] a = "u16" -> Attr("u16", {<<"0x3", "07">>, <<"1">>}, <<"03">>)
    [] a = "open" -> Attr("u8", {<<"1", "*">>}, <<>>)
    [] a = "s64" -> Attr("s64", {}, <<>>)
    [] a = "u64s" -> Many(Attr("u64", {}, <<"7", "010">>), "7,010")
    [] a = "bool" -> Attr("bool", {}, <<"false">>)
    [] a = "string" -> [Attr("string", {}, <<>>) EXCEPT !.pattern = "FIRST|7"]
    [] a = "text" -> Attr("string", {}, <<"FIRST">>)
    [] a = "enum" -> Attr("enum", {<<"FIRST">>, <<"SECOND">>}, <<"SECOND">>)
    [] a = "enums" -> Many(Attr("enum", {<<"FIRST">>, <<"SECOND">>}, <<"SECOND">>), "SECOND")
    [] a = "class" -> Attr("class", {}, <<"Root">>)
    [] a = "date" -> Attr("date", {}, <<>>)]

\* Numbers in decimal, octal and hexadecimal, "a" that only base 16 reads,
\* "08" that is no octal number, and texts that are no numbers.
MCNumbers == -17 .. 33
Numeral(first, oct, dec, hex) == [first |-> first, oct |-> oct, dec |-> dec, hex |-> hex]
NaN == NotANumber
MCReads == [t \in {"", "*", "0", "1", "-1", "3", "7", "8", "16", "-16", "010", "03", "07", "0x3", "0x1f", "08", "a",
                   "FIRST", "SECOND", "7,010", "true", "false", "Root", "Mid", "2007-10-24"} |->
  CASE t = "*" -> Numeral("*", NaN, NaN, NaN)
    [] t = "" -> Numeral("", NaN, NaN, NaN)
    [] t = "0" -> Numeral("0", 0, 0, 0)
    [] t = "1" -> Numeral("1", 1, 1, 1) [] t = "-1" -> Numeral("-", -1, -1, -1)
    [] t = "3" -> Numeral("3", 3, 3, 3) [] t = "7" -> Numeral("7", 7, 7, 7)
    [] t = "8" -> Numeral("8", NaN, 8, 8)
    [] t = "16" -> Numeral("1", 14, 16, 22) [] t = "-16" -> Numeral("-", -14, -16, -22)
    [] t = "010" -> Numeral("0", 8, 10, 16)
    [] t = "03" -> Numeral("0", 3, 3, 3) [] t = "07" -> Numeral("0", 7, 7, 7)
    [] t = "0x3" -> Numeral("0", NaN, NaN, 3) [] t = "0x1f" -> Numeral("0", NaN, NaN, 31)
    [] t = "08" -> Numeral("0", NaN, 8, 8)
    [] t = "a" -> Numeral("a", NaN, NaN, 10)
    [] OTHER -> Numeral("?", NaN, NaN, NaN)]
MCDecimal == [n \in MCNumbers |-> IF n \in {0, 1, 3, 7, 8, 16} THEN
  CASE n = 0 -> "0" [] n = 1 -> "1" [] n = 3 -> "3" [] n = 7 -> "7" [] n = 8 -> "8" [] n = 16 -> "16" ELSE "-1"]
MCDenotes == [n \in MCNumbers |->
  CASE n = 0 -> {"0"} [] n = 1 -> {"1"} [] n = -1 -> {"-1"}
    [] n = 3 -> {"3", "03", "0x3"} [] n = 7 -> {"7", "07"}
    [] n = 8 -> {"8", "010"} [] n = 16 -> {"16"} [] n = -16 -> {"-16"}
    [] n = 31 -> {"0x1f"} [] OTHER -> {}]
MCPattern == [p \in {"FIRST|7"} |-> {"FIRST", "7"}]
MCDates == [type \in {"date", "time"} |-> IF type = "date" THEN {"2007-10-24"} ELSE {}]
MCValues ==
  {Num(n) : n \in {-17, -16, -3, -2, -1, 0, 1, 2, 3, 4, 7, 8, 15, 16, 31, 32}} \cup
  {Bool(b) : b \in BOOLEAN} \cup {Str(t) : t \in DOMAIN MCReads} \cup {Nothing} \cup
  {List(<<>>), List(<<Num(7), Str("0x1f")>>), List(<<Num(32)>>), List(<<Str("FIRST"), Str("SECOND")>>),
   List(<<Str("FIRST"), Str("7")>>), List(<<Num(1), Str("a"), Num(0)>>)}

\* Types of the tables; TLC keeps their values once it has checked them.
ASSUME TablesAreKept ==
  /\ Superclasses \in [Schemas -> {Superclasses[S] : S \in Schemas}]
  /\ Sound \in [DOMAIN AttributeOf -> [SUBSET Classes -> BOOLEAN]]
  /\ Complete \in [DOMAIN AttributeOf -> [SUBSET Classes -> BOOLEAN]]
=============================================================================
