---------------------------- MODULE MCTemplates ----------------------------
(* Two classes with templates and one, a subclass of the first, without.*)
EXTENDS Templates, TLC

MCClasses == {"App", "RunApp", "TestApp"}
MCSubclasses == [c \in MCClasses |-> IF c = "App" THEN {"RunApp", "TestApp"} ELSE {}]
MCObjects == {<<"RunApp", "a">>, <<"RunApp", "b">>, <<"TestApp", "c">>}
MCSymmetry == Permutations(Handles) \cup Permutations(Templates)
=============================================================================
