----------------------------- MODULE MCZoneLock -----------------------------
(* ZoneLock for TLC: which order asks for which names.                     *)
EXTENDS ZoneLock, TLC

CONSTANTS o1, o2, o3, o4, serve, renew

Plain(b) == [base |-> b, wild |-> FALSE]
Wild(b)  == [base |-> b, wild |-> TRUE]

(* The name a and its wildcard, which only orders of one process ask for;  *)
(* and b, which is a second name of one order, the first of another, and   *)
(* asked for in another process as well.                                   *)
Requested == o1 :> <<Plain("a")>> @@ o2 :> <<Wild("a"), Plain("b")>> @@
             o3 :> <<Plain("b")>> @@ o4 :> <<Wild("b")>>

Running == [o \in {o1, o2, o3} |-> serve] @@ o4 :> renew
=============================================================================
