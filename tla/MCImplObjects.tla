---------------------------- MODULE MCImplObjects ----------------------------
(* RunApp is a subclass of App; objects are looked up by both classes.      *)
EXTENDS ImplObjects, TLC

MCClasses == {"App", "RunApp"}
MCSubclasses == [c \in MCClasses |-> IF c = "App" THEN {"RunApp"} ELSE {}]
MCObjects == {<<"RunApp", "a">>, <<"RunApp", "b">>, <<"App", "c">>}
HandleSymmetry == Permutations(Handles)
=============================================================================
