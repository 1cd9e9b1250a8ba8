------------------------------ MODULE MCPyDal ------------------------------
EXTENDS PyDal, TLC

CONSTANTS o1, o2, o3, Base, Sub

MCClassOf == o1 :> Base @@ o2 :> Sub @@ o3 :> Sub
MCOksTypes == Base :> {Base} @@ Sub :> {Base, Sub}
MCStored == o1 :> [attr |-> 0, rel |-> {o2}] @@ o2 :> [attr |-> 0, rel |-> {o2}] @@ o3 :> None
=============================================================================
