--------------------------- MODULE MCSubscriptions ---------------------------
(* RunApp is derived from App; o1 is an App and o2 a RunApp.               *)
EXTENDS Subscriptions

MCClasses == {"App", "RunApp"}
MCSuperclasses == [k \in MCClasses |-> IF k = "RunApp" THEN {"App"} ELSE {}]

Change(k, o, a) == [cls |-> k, id |-> o, act |-> a]
ForClass(k) == [classes |-> {k}, objects |-> [j \in MCClasses |-> {}]]
ForObject(k, o) ==
  [classes |-> {}, objects |-> [j \in MCClasses |-> IF j = k THEN {o} ELSE {}]]

MCClientCriteria ==
  {[classes |-> {}, objects |-> [j \in MCClasses |-> {}]],
   ForClass("App"), ForClass("RunApp"), ForObject("App", "o1"),
   [ForObject("App", "o1") EXCEPT !.classes = {"RunApp"}]}

MCTransactions ==
  {{Change("App", "o1", "created")},
   {Change("App", "o1", "removed"), Change("RunApp", "o2", "modified")},
   {Change("RunApp", "o2", "created")}}
=============================================================================
