---------------------------- MODULE MCConfLocks ----------------------------
(* The calls the runs are given: those that the theorems are about.         *)
EXTENDS ConfLocksProof, TLC

ASSUME CallsAssumption == CallsListed

\* The client's threads are alike.
Clients == Permutations(Threads \ {Notifier})
=============================================================================
